---- MODULE Spec2Model ----
(***************************************************************************)
(* Hook dispatch engine of django-bulk-hooks: HookMeta registration,       *)
(* HookHandler.handle / HookHandler._process (handler.py), the per-thread  *)
(* dispatch queue and execution context, and the transaction collaborator  *)
(* (atomic blocks and on_commit callbacks) the dispatcher talks to.        *)
(*                                                                         *)
(* A thread is modelled as a call stack of frames:                         *)
(*   "handle"  : the drain loop of an outermost HookHandler.handle         *)
(*   "execute" : the closure _execute of one _process call                 *)
(*   "hook"    : the body of one hook method                               *)
(*   "commit"  : the connection running its on_commit callbacks            *)
(* The top of the stack is the last element.                               *)
(***************************************************************************)
EXTENDS Integers, Sequences, FiniteSets, TLC

\* ------------------------------------------------------------------ bounds
MaxCalls == 1
MaxDefs == 1
MaxAtomic == 1
MaxScopes == 2

\* --------------------------------------------------------------- universe
Threads == {"T1", "T2"}
MainThreads == {"T1"}
\* An event name is phase + "_" + op, e.g. "before_update".
Ev(phase, op) == [phase |-> phase, op |-> op]
VALIDATE_CREATE == Ev("validate", "create")
BEFORE_CREATE == Ev("before", "create")
BEFORE_UPDATE == Ev("before", "update")
AFTER_CREATE == Ev("after", "create")
Events == {VALIDATE_CREATE, BEFORE_CREATE, BEFORE_UPDATE, AFTER_CREATE}
\* The events that the hook classes of the dispatcher scenarios are annotated
\* for, which are the events those scenarios dispatch.
HookedEvents == {VALIDATE_CREATE, BEFORE_UPDATE, AFTER_CREATE}
NoneEvent == Ev("None", "None")
AccountModel == "Account"
Models == {AccountModel}

\* Python values: None, an integer, and an object with attributes.  A dotted
\* field path such as "created_by.username" is the sequence of its segments.
NoneRec == [tag |-> "None"]
IntVal(i) == [tag |-> "int", v |-> i]
Obj(attrs) == [tag |-> "obj", attrs |-> attrs]

\* An Account record with its balance.
Account(balance) == Obj([balance |-> IntVal(balance)])

\* Optional values (None or a value) of the execution context.
NoneOpt == [some |-> FALSE, val |-> <<>>]
Some(x) == [some |-> TRUE, val |-> x]
NoneName == "None"

\* The (new_records, old_records) lists of one bulk operation: an empty
\* batch, a create (no old records), updates in which a record does or does
\* not change to 2, and batches with fewer or more old records than new ones.
Batches ==
    { << << >>, << >> >>,
      << <<Account(2)>>, << >> >>,
      << <<Account(1), Account(2)>>, <<Account(1), Account(1)>> >>,
      << <<Account(2), Account(1)>>, <<Account(2), Account(1)>> >>,
      << <<Account(1), Account(2)>>, <<Account(1)>> >>,
      << <<Account(2)>>, <<Account(1), Account(2)>> >>,
      << << >>, <<Account(1)>> >> }

\* The records of the condition tests: a User with a username, and a
\* TestAccount with a name, a balance, a status and an optional creator.
User(username) == Obj([username |-> IntVal(username)])
TestAccount(name, balance, status, created_by) ==
    Obj([name |-> IntVal(name), balance |-> IntVal(balance),
         status |-> status, created_by |-> created_by])

\* The status values of the tests.
Active == IntVal(1)
Inactive == IntVal(2)
Premium == IntVal(3)

TestAccounts ==
    {TestAccount(name, balance, status, created_by) :
        name \in {1, 2}, balance \in {1, 2},
        status \in {Active, Inactive, Premium},
        created_by \in {NoneRec, User(1)}}

\* One record is created, or one record is saved after some of its fields
\* were assigned.
ConditionBatches ==
    {<< <<n>>, << >> >> : n \in TestAccounts}
        \cup {<< <<n>>, <<o>> >> : n \in TestAccounts, o \in TestAccounts}

\* A model instance as select_related sees it: its primary key, None before
\* the first save, and the relation fields cached on it (_state.fields_cache).
Row(pk, fields_cache) ==
    Obj([pk |-> pk, fields_cache |-> fields_cache, balance |-> IntVal(1)])

Rows ==
    {Row(pk, fields_cache) :
        pk \in {NoneRec, IntVal(1)},
        fields_cache \in {{}, {<< "created_by" >>}}}

\* Up to two records are saved; the old records are their stored state.
PreloadBatches ==
    { << << >>, << >> >> }
        \cup {<< <<r>>, <<r>> >> : r \in Rows}
        \cup {<< <<r1, r2>>, <<r1, r2>> >> : r1 \in Rows, r2 \in Rows}

\* ------------------------------------------------------------- conditions
NoCond == [op |-> "none"]
ChangesTo(field, value) ==
    [op |-> "changes_to", field |-> field, value |-> value]
HasChanged(field) == [op |-> "has_changed", field |-> field]

\* ChangesTo("balance", 2)
BalanceTo2 == ChangesTo(<< "balance" >>, IntVal(2))

\* The outcome of an attribute lookup that raises AttributeError.
Raised == [tag |-> "raise"]

\* getattr(instance, attr): raises when the attribute is missing.
getattr_strict(instance, attr) ==
    IF instance.tag = "obj" /\ attr \in DOMAIN instance.attrs
    THEN instance.attrs[attr]
    ELSE Raised

\* getattr(instance, attr, None)
getattr(instance, attr) ==
    IF instance.tag = "obj" /\ attr \in DOMAIN instance.attrs
    THEN instance.attrs[attr]
    ELSE NoneRec

\* resolve_dotted_attr(instance, path): one lookup per segment, None as soon
\* as the value at hand is None.
RECURSIVE resolve_dotted_attr(_, _)
resolve_dotted_attr(instance, path) ==
    IF path = << >> THEN instance
    ELSE IF instance = NoneRec THEN NoneRec
    ELSE resolve_dotted_attr(getattr(instance, Head(path)), Tail(path))

\* Conditions that look at the new record only: ChangesTo as IsEqual, and
\* HasChanged as a test for a value that is not None.
CheckNewOnly(cond, n, o) ==
    CASE cond.op = "changes_to" ->
           resolve_dotted_attr(n, cond.field) = cond.value
      [] cond.op = "has_changed" ->
           resolve_dotted_attr(n, cond.field) # NoneRec
      [] OTHER -> TRUE

\* condition.check(n, o) for one (new, old) pair.
Check(cond, n, o) ==
    CASE cond.op = "changes_to" ->
           /\ resolve_dotted_attr(n, cond.field) = cond.value
           /\ resolve_dotted_attr(o, cond.field) # cond.value
      [] cond.op = "has_changed" ->
           resolve_dotted_attr(n, cond.field) # resolve_dotted_attr(o, cond.field)
      [] OTHER -> TRUE

\* event.startswith("before_") and event.startswith("") in its place.
StartsWithBefore(event) == event.phase = "before"
StartsWithAnything(event) == TRUE

\* event.startswith("after_")
StartsWithAfter(event) == event.phase = "after"

\* ------------------------------------------------- hook classes (fixtures)
\* One annotation appended by @hook to fn.hooks_hooks, with the name of the
\* method that carries it.
Ann(name, event, condition, priority) ==
    [method_name |-> name, hooked |-> TRUE, model |-> AccountModel,
     event |-> event, condition |-> condition, priority |-> priority]

\* A method of a class namespace that no @hook was applied to: it has no
\* hooks_hooks attribute.
Plain(name) ==
    [method_name |-> name, hooked |-> FALSE, model |-> NoneName,
     event |-> NoneEvent, condition |-> NoCond, priority |-> 0]

\* The hook classes of the dispatcher scenarios.  They are written for the
\* model: OrderedHooks has hooks of different and of equal priority and a
\* method annotated twice for one event, GatedHooks a method with a condition
\* annotated for two events, FaultyHooks a method that raises an Exception
\* followed by one that does not, ChainHooks methods that call handle.
ClassNames == {"OrderedHooks", "GatedHooks", "FaultyHooks", "ChainHooks"}

\* The classes of the registration tests: a hook class and a class derived
\* from it, a method with two annotations, a class with a method without
\* annotation, and a class that does not derive from the hook base class.
DecoratorClassNames ==
    {"BaseHooks", "DerivedHooks", "MultiDecoratorHooks", "MixedMethodsHooks",
     "NonHookClass"}

\* The hook classes named as bases in the class statement of c.
Bases(c) == IF c = "DerivedHooks" THEN {"BaseHooks"} ELSE {}

\* Whether the class statement of c runs HookMeta.__new__: c derives from the
\* hook base class.
UsesHookMeta(c) == c # "NonHookClass"

\* The methods of a class namespace in namespace order, an annotated method
\* once for each of its annotations.
Namespace(c) ==
    CASE c = "OrderedHooks" ->
           << Ann("hook_25", BEFORE_UPDATE, NoCond, 25),
              \* the same method annotated a second time for the same event
              Ann("hook_25", BEFORE_UPDATE, NoCond, 90),
              Ann("hook_75", BEFORE_UPDATE, NoCond, 75),
              Ann("hook_50", BEFORE_UPDATE, NoCond, 50),
              Ann("second_50", BEFORE_UPDATE, NoCond, 50) >>
      [] c = "GatedHooks" ->
           << Ann("on_validate", VALIDATE_CREATE, NoCond, 50),
              Ann("on_created", AFTER_CREATE, NoCond, 50),
              Ann("to_two", BEFORE_UPDATE, BalanceTo2, 50),
              Ann("to_two", AFTER_CREATE, BalanceTo2, 25) >>
      \* AccountHooks of the tests, its methods for the events of the model
      [] c = "AccountHooks" ->
           << Ann("validate_account_creation", VALIDATE_CREATE, NoCond, 50),
              Ann("before_account_create", BEFORE_CREATE, NoCond, 50),
              Ann("after_account_create", AFTER_CREATE, NoCond, 50),
              Ann("before_balance_update", BEFORE_UPDATE,
                  HasChanged(<< "balance" >>), 50) >>
      [] c = "FaultyHooks" ->
           << Ann("failing", BEFORE_UPDATE, NoCond, 50),
              Ann("failing", AFTER_CREATE, NoCond, 50),
              Ann("after_failing", BEFORE_UPDATE, NoCond, 75),
              Ann("after_failing", AFTER_CREATE, NoCond, 75) >>
      [] c = "ConcurrencyHook" ->
           << Ann("count", BEFORE_CREATE, NoCond, 50) >>
      [] c = "RepeatHooks" ->
           \* @hook(BEFORE_CREATE, priority=75) above @hook(AFTER_CREATE)
           \* above @hook(BEFORE_CREATE) on twice, then first_25
           << Ann("twice", BEFORE_CREATE, NoCond, 50),
              Ann("twice", AFTER_CREATE, NoCond, 50),
              Ann("twice", BEFORE_CREATE, NoCond, 75),
              Ann("first_25", BEFORE_CREATE, NoCond, 25) >>
      [] c = "BaseHooks" ->
           << Ann("base_hook", BEFORE_CREATE, NoCond, 50) >>
      [] c = "DerivedHooks" ->
           << Ann("derived_hook", AFTER_CREATE, NoCond, 50) >>
      [] c = "MultiDecoratorHooks" ->
           \* decorators apply bottom-up: the lower one appends first
           << Ann("multi_event_hook", AFTER_CREATE, NoCond, 50),
              Ann("multi_event_hook", BEFORE_CREATE, NoCond, 50) >>
      [] c = "MixedMethodsHooks" ->
           << Ann("decorated_method", BEFORE_CREATE, NoCond, 50),
              Plain("undecorated_method") >>
      [] c = "ConditionHooks" ->
           << Ann("balance_changed", BEFORE_UPDATE,
                  HasChanged(<< "balance" >>), 50),
              Ann("changes_to_inactive", BEFORE_UPDATE,
                  ChangesTo(<< "status" >>, Inactive), 50),
              Ann("creator_changed", BEFORE_UPDATE,
                  HasChanged(<< "created_by", "username" >>), 50) >>
      [] c = "PreloadHooks" ->
           << Ann("with_related", BEFORE_UPDATE, NoCond, 10),
              Ann("with_nested", BEFORE_UPDATE, NoCond, 20) >>
      [] c = "AtomicHooks" ->
           << Ann("in_block", BEFORE_UPDATE, NoCond, 50),
              Ann("after_block", AFTER_CREATE, NoCond, 50) >>
      [] c = "RegisteringHooks" ->
           << Ann("install", BEFORE_UPDATE, NoCond, 25),
              Ann("first_after", AFTER_CREATE, NoCond, 50) >>
      [] c = "LateHooks" ->
           << Ann("late_before", BEFORE_UPDATE, NoCond, 75),
              Ann("late_after", AFTER_CREATE, NoCond, 25) >>
      [] c = "BrokenInitHooks" ->
           << Ann("never_built", BEFORE_UPDATE, NoCond, 50) >>
      [] c = "NonHookClass" ->
           << Ann("non_hook_method", BEFORE_CREATE, NoCond, 50) >>
      [] OTHER ->
           << Ann("cascade", VALIDATE_CREATE, NoCond, 25),
              Ann("recursive_create", AFTER_CREATE, NoCond, 50),
              Ann("interrupt", BEFORE_UPDATE, NoCond, 50) >>

\* The functions decorated with bulk_hook; each stands for the FunctionHandler
\* class that bulk_hook creates around it as well.
BulkFunctions == {"on_update", "on_audit", "on_create"}

\* The priority argument in the decorator line of each function:
\* @bulk_hook(Account, event, priority=0) on on_update, priority=25 on
\* on_create, and no priority on on_audit.
GivenPriority(f) ==
    CASE f = "on_update" -> Some(0)
      [] f = "on_create" -> Some(25)
      [] OTHER -> NoneOpt

\* The parameter names of method m of handler class c: those of
\* FunctionHandler.handle, and those of the hook methods of the tests.
MethodParams(c, m) ==
    IF c \in BulkFunctions THEN {"new_instances", "original_instances"}
    ELSE {"new_records", "old_records"}

\* The arguments of @select_related on method m of class c, each field a
\* dotted path; none for a method without the decorator.
RelatedFields(c, m) ==
    CASE c = "PreloadHooks" /\ m = "with_related" -> << << "created_by" >> >>
      [] c = "PreloadHooks" /\ m = "with_nested" ->
           << << "created_by", "profile" >> >>
      [] OTHER -> << >>

\* The recursive hook re-triggers while fewer than this many calls are logged.
RetriggerLimit == 3

\* The body of a hook method as a list of steps.
Body(c, m) ==
    CASE c = "FaultyHooks" /\ m = "failing" -> << [op |-> "raise"] >>
      \* reads old_account.balance for every pair of zip(new_records,
      \* old_records); the other methods of AccountHooks append to a log, the
      \* accounts of the model having a name and no negative balance
      [] c = "AccountHooks" /\ m = "before_balance_update" ->
           << [op |-> "read_old"] >>
      [] c = "ChainHooks" /\ m = "recursive_create" ->
           << [op |-> "count"],
              [op |-> "handle_if", event |-> AFTER_CREATE] >>
      [] c = "ChainHooks" /\ m = "cascade" ->
           << [op |-> "handle", event |-> BEFORE_UPDATE],
              [op |-> "handle", event |-> AFTER_CREATE] >>
      \* raises KeyboardInterrupt, which is no Exception, for a batch with
      \* new records
      [] c = "ChainHooks" /\ m = "interrupt" -> << [op |-> "interrupt_if"] >>
      \* executes the class statement of LateHooks unless the class exists
      [] c = "RegisteringHooks" /\ m = "install" ->
           << [op |-> "define", cls |-> "LateHooks"],
              [op |-> "handle", event |-> AFTER_CREATE] >>
      \* with transaction.atomic(): HookHandler.handle("after_create", ...)
      [] c = "AtomicHooks" /\ m = "in_block" ->
           << [op |-> "atomic"],
              [op |-> "handle", event |-> AFTER_CREATE],
              [op |-> "exit"] >>
      \* the wrapper of @select_related runs before the function it decorates
      [] c = "PreloadHooks" -> << [op |-> "preload"] >>
      [] OTHER -> << >>

\* ------------------------------------------------------------------ state
VARIABLES
    registry,       \* (model, event) -> list of registrations
    registered,     \* HookMeta._registered
    defined,        \* hook classes created so far
    queue,          \* thread -> dispatch queue (get_hook_queue())
    hook_vars,      \* thread -> execution context (HookVars)
    stack,          \* thread -> call stack
    in_atomic,      \* thread -> depth of open atomic blocks of its connection
    run_on_commit,  \* thread -> callbacks waiting for commit
    hook_calls,     \* error_state["hook_calls"] of the recursive hook
    batch,          \* the records of the bulk operation of the top-level code
    ncalls,         \* top-level handle calls made so far
    disp,           \* history: every entry ever enqueued, by id
    calls,          \* history: hook invocations and logged hook errors
    scopes,         \* open registry scopes: the snapshot each took on entry
    exits,          \* history: the registry scopes that have exited
    repeats         \* history: the register_hook calls made for a stored key

vars ==
    << registry, registered, defined, queue, hook_vars, stack, in_atomic,
       run_on_commit, hook_calls, batch, ncalls, disp, calls, scopes, exits,
       repeats >>

\* HookVars.__init__
HookVarsInit ==
    [new |-> NoneOpt, old |-> NoneOpt, event |-> NoneEvent,
     model |-> NoneName, depth |-> 0]

Init ==
    /\ registry = [k \in Models \X Events |-> << >>]
    /\ registered = {}
    /\ defined = {}
    /\ queue = [t \in Threads |-> << >>]
    /\ hook_vars = [t \in Threads |-> HookVarsInit]
    /\ stack = [t \in Threads |-> << >>]
    /\ in_atomic = [t \in Threads |-> 0]
    /\ run_on_commit = [t \in Threads |-> << >>]
    /\ hook_calls = 0
    /\ batch \in Batches
    /\ ncalls = 0
    /\ disp = << >>
    /\ calls = << >>
    /\ scopes = << >>
    /\ exits = << >>
    /\ repeats = {}

\* --------------------------------------------------------------- registry
\* get_hooks(model, event): the list stored under the key, the empty list for
\* a key the registry does not hold.
get_hooks(reg, model, event) ==
    IF <<model, event>> \in DOMAIN reg THEN reg[<<model, event>>] ELSE << >>

\* The list under the key of annotation a holds method a of class c.
HasRegistration(reg, c, a) ==
    \E i \in 1..Len(reg[<<a.model, a.event>>]) :
        /\ reg[<<a.model, a.event>>][i].handler_cls = c
        /\ reg[<<a.model, a.event>>][i].method_name = a.method_name

\* register_hook with no test of the key: every call appends.
register_append(reg, model, event, handler_cls, method_name, condition, priority) ==
    LET hooks == reg[<<model, event>>]
        h == [handler_cls |-> handler_cls, method_name |-> method_name,
              condition |-> condition, priority |-> priority]
    IN  [reg EXCEPT ![<<model, event>>] = Append(hooks, h)]

\* register_hook: append unless the key is already stored.
register_hook(reg, model, event, handler_cls, method_name, condition, priority) ==
    LET hooks == reg[<<model, event>>]
        present == \E i \in 1..Len(hooks) :
                      /\ hooks[i].handler_cls = handler_cls
                      /\ hooks[i].method_name = method_name
        h == [handler_cls |-> handler_cls, method_name |-> method_name,
              condition |-> condition, priority |-> priority]
    IN  IF present THEN reg
        ELSE [reg EXCEPT ![<<model, event>>] = Append(hooks, h)]

\* The record of a call register_hook(...) with the arguments of annotation a
\* of class c: none when the key is not stored; when it is, the key with the
\* number of registrations that its list holds behind the one of the key,
\* which are those registered after it.
RepeatOf(reg, c, a) ==
    LET hooks == reg[<<a.model, a.event>>]
        at == CHOOSE i \in 1..Len(hooks) :
                  /\ hooks[i].handler_cls = c
                  /\ hooks[i].method_name = a.method_name
    IN  IF HasRegistration(reg, c, a)
        THEN {[key |-> <<a.model, a.event, c, a.method_name>>,
               behind |-> Len(hooks) - at]}
        ELSE {}

\* HookMeta.__new__: the loop over the methods of the namespace of the new
\* class that have a hooks_hooks attribute, and over their annotations.
RECURSIVE HookMetaNew(_, _, _)
HookMetaNew(st, cls, anns) ==
    IF anns = << >> THEN st
    ELSE
        LET a == Head(anns)
            key == <<a.model, a.event, cls, a.method_name>>
            st2 == IF ~a.hooked \/ key \in st.registered THEN st
                   ELSE [registry |->
                             register_hook(st.registry, a.model, a.event, cls,
                                           a.method_name, a.condition,
                                           a.priority),
                         registered |-> st.registered \cup {key}]
        IN  HookMetaNew(st2, cls, Tail(anns))

\* Every class statement run through HookMeta.__new__.
AlwaysHookMeta(st, c) == HookMetaNew(st, c, Namespace(c))

\* The class statement of c: HookMeta.__new__ with the namespace of c for a
\* class that derives from the hook base class, type.__new__ for any other.
ClassStatement(st, c) ==
    IF UsesHookMeta(c) THEN HookMetaNew(st, c, Namespace(c)) ELSE st

\* A class statement executed by top-level code, which creates its classes
\* before it starts the bulk operation, a derived class after its bases.
\* MaxDefs bounds the classes that are not derived from another one.
DefineClass(t, c) ==
    /\ stack[t] = << >>
    /\ ncalls = 0 /\ in_atomic[t] = 0
    /\ c \notin defined
    /\ Bases(c) \subseteq defined
    /\ \/ Bases(c) # {}
       \/ Cardinality({d \in defined : Bases(d) = {}}) < MaxDefs
    /\ LET st == ClassStatement([registry |-> registry,
                                 registered |-> registered], c)
       IN  /\ registry' = st.registry
           /\ registered' = st.registered
    /\ defined' = defined \cup {c}
    /\ UNCHANGED << scopes, exits, repeats,
                    queue, hook_vars, stack, in_atomic, run_on_commit,
                    hook_calls, batch, ncalls, disp, calls >>

\* DEFAULT_PRIORITY, the value of Priority.NORMAL.
DEFAULT_PRIORITY == 50

\* The priority arguments bulk_hook is applied with: none, 0 and 25.
BulkPriorities == {NoneOpt, Some(0), Some(25)}

\* priority or DEFAULT_PRIORITY
PriorityOrDefault(priority) ==
    IF ~priority.some \/ priority.val = 0 THEN DEFAULT_PRIORITY
    ELSE priority.val

\* @bulk_hook(model_cls, event, when, priority) applied to function f by
\* top-level code: a FunctionHandler class is created and its method handle
\* registered.
BulkHook(t, f, event, when, priority) ==
    /\ stack[t] = << >>
    /\ ncalls = 0 /\ in_atomic[t] = 0
    /\ f \notin defined
    /\ Cardinality({d \in defined : Bases(d) = {}}) < MaxDefs
    /\ registry' = register_hook(registry, AccountModel, event, f, "handle",
                                 when, PriorityOrDefault(priority))
    /\ defined' = defined \cup {f}
    /\ UNCHANGED << scopes, exits, repeats,
                    registered, queue, hook_vars, stack, in_atomic,
                    run_on_commit, hook_calls, batch, ncalls, disp, calls >>

\* --------------------------------------------------------- registry scopes
\* clear_hooks(): no registration is left under any key.
clear_hooks(reg) == [k \in DOMAIN reg |-> << >>]

\* Top-level code clears the registry.
ClearHooks(t) ==
    /\ stack[t] = << >>
    /\ ncalls = 0 /\ in_atomic[t] = 0
    /\ registry' = clear_hooks(registry)
    /\ UNCHANGED << scopes, exits, repeats,
                    registered, defined, queue, hook_vars, stack,
                    in_atomic, run_on_commit, hook_calls, batch, ncalls, disp,
                    calls >>

\* Test code calls register_hook itself, with the arguments of annotation k of
\* a class that is defined already: after clear_hooks this brings the hooks of
\* the class back, one call after the other in the order of the class body.
RegisterDirect(t, c, k) ==
    /\ stack[t] = << >>
    /\ ncalls = 0 /\ in_atomic[t] = 0
    /\ c \in defined
    /\ k \in 1..Len(Namespace(c))
    /\ Namespace(c)[k].hooked
    /\ ~HasRegistration(registry, c, Namespace(c)[k])
    /\ \A j \in 1..(k - 1) :
           Namespace(c)[j].hooked => HasRegistration(registry, c, Namespace(c)[j])
    /\ LET a == Namespace(c)[k]
       IN  registry' = register_hook(registry, a.model, a.event, c,
                                     a.method_name, a.condition, a.priority)
    /\ UNCHANGED << scopes, exits, repeats,
                    registered, defined, queue, hook_vars, stack,
                    in_atomic, run_on_commit, hook_calls, batch, ncalls, disp,
                    calls >>

\* Test code calls register_hook with the arguments of annotation k of a
\* class whose registration for that annotation is stored.
RegisterAgain(t, c, k) ==
    /\ stack[t] = << >>
    /\ ncalls = 0 /\ in_atomic[t] = 0
    /\ c \in defined
    /\ k \in 1..Len(Namespace(c))
    /\ Namespace(c)[k].hooked
    /\ HasRegistration(registry, c, Namespace(c)[k])
    /\ LET a == Namespace(c)[k]
       IN  /\ registry' = register_hook(registry, a.model, a.event, c,
                                        a.method_name, a.condition, a.priority)
           /\ repeats' = repeats \cup RepeatOf(registry, c, a)
    /\ UNCHANGED << scopes, exits, registered, defined, queue, hook_vars,
                    stack, in_atomic, run_on_commit, hook_calls, batch, ncalls,
                    disp, calls >>

\* The registration temporary_hook is entered with: a plain handler class.
TempAnn == Ann("temp", BEFORE_CREATE, NoCond, 50)

\* The snapshot written over the registry key by key, which leaves a key that
\* the snapshot has nothing for as it is.
MergeSnapshot(reg, snapshot) ==
    [k \in DOMAIN reg |-> IF snapshot[k] = << >> THEN reg[k] ELSE snapshot[k]]

\* Scope exit: the registry is replaced by the snapshot taken on entry.
RestoreSnapshot(reg, snapshot) == snapshot

\* Scopes entered so far, open or exited.
ScopesEntered == Len(scopes) + Len(exits)

\* with isolated_registry(): entry.
IsolatedEnter(t) ==
    /\ stack[t] = << >>
    /\ ncalls = 0 /\ in_atomic[t] = 0
    /\ ScopesEntered < MaxScopes
    /\ scopes' = Append(scopes, registry)
    /\ UNCHANGED << exits, repeats, registry, registered, defined, queue,
                    hook_vars, stack, in_atomic, run_on_commit, hook_calls,
                    batch, ncalls, disp, calls >>

\* with temporary_hook(model, event, handler_cls, method_name, condition,
\* priority): entry.
TemporaryHookEnter(t) ==
    /\ stack[t] = << >>
    /\ ncalls = 0 /\ in_atomic[t] = 0
    /\ ScopesEntered < MaxScopes
    /\ scopes' = Append(scopes, registry)
    /\ registry' = register_hook(registry, TempAnn.model, TempAnn.event,
                                 "TempHandler", TempAnn.method_name,
                                 TempAnn.condition, TempAnn.priority)
    /\ repeats' = repeats \cup RepeatOf(registry, "TempHandler", TempAnn)
    /\ UNCHANGED << exits, registered, defined, queue, hook_vars, stack,
                    in_atomic, run_on_commit, hook_calls, batch, ncalls, disp,
                    calls >>

\* with temporary_hook(...): entry with the arguments of annotation k of hook
\* class c, which its class statement has registered already.
TemporaryHookOf(t, c, k) ==
    /\ stack[t] = << >>
    /\ ncalls = 0 /\ in_atomic[t] = 0
    /\ ScopesEntered < MaxScopes
    /\ c \in defined
    /\ k \in 1..Len(Namespace(c))
    /\ Namespace(c)[k].hooked
    /\ scopes' = Append(scopes, registry)
    /\ LET a == Namespace(c)[k]
       IN  /\ registry' = register_hook(registry, a.model, a.event, c,
                                        a.method_name, a.condition, a.priority)
           /\ repeats' = repeats \cup RepeatOf(registry, c, a)
    /\ UNCHANGED << exits, registered, defined, queue, hook_vars, stack,
                    in_atomic, run_on_commit, hook_calls, batch, ncalls, disp,
                    calls >>

\* The innermost open scope exits.
ScopeExit(t) ==
    /\ stack[t] = << >>
    /\ in_atomic[t] = 0
    /\ scopes # << >>
    /\ LET snapshot == scopes[Len(scopes)]
           restored == RestoreSnapshot(registry, snapshot)
       IN  /\ registry' = restored
           /\ exits' = Append(exits, [entry |-> snapshot, inside |-> registry,
                                      after |-> restored])
    /\ scopes' = SubSeq(scopes, 1, Len(scopes) - 1)
    /\ UNCHANGED << repeats, registered, defined, queue, hook_vars, stack,
                    in_atomic, run_on_commit, hook_calls, batch, ncalls, disp,
                    calls >>

\* ------------------------------------------------------------- dispatcher
Min(a, b) == IF a < b THEN a ELSE b

\* Insert h behind every element whose priority is not larger.
RECURSIVE InsertSorted(_, _)
InsertSorted(sorted, h) ==
    IF sorted = << >> THEN << h >>
    ELSE IF Head(sorted).priority <= h.priority
         THEN << Head(sorted) >> \o InsertSorted(Tail(sorted), h)
         ELSE << h >> \o sorted

RECURSIVE SortInto(_, _)
SortInto(sorted, hooks) ==
    IF hooks = << >> THEN sorted
    ELSE SortInto(InsertSorted(sorted, Head(hooks)), Tail(hooks))

\* The registrations left in registration order.
Unsorted(hooks) == hooks

\* sorted(get_hooks(model, event), key=lambda x: x[3]): stable, ascending.
SortedHooks(hooks) == SortInto(<< >>, hooks)

\* old_local += [None] * (len(new_local) - len(old_local))
PadOld(new_local, old_local) ==
    IF Len(old_local) < Len(new_local)
    THEN old_local \o [i \in 1..(Len(new_local) - Len(old_local)) |-> NoneRec]
    ELSE old_local

\* `old_local = old_records or []` (line 137) is the list of the caller itself
\* unless that list is empty; every dispatch of a bulk operation is handed the
\* same two lists, on every thread.
SharedOld == batch[2] # << >>

\* The list old_local of entry e as _execute finds it: the caller's list as it
\* is now, or a list of its own.
OldLocal(e) == IF SharedOld THEN batch[2] ELSE PadOld(e.new, e.old)

\* The number of None that line 139 is about to append to the caller's list:
\* len(new_local) - len(old_local) as read in lines 138-139, before the list
\* is extended.
PadCount(e) ==
    IF SharedOld /\ Len(batch[2]) < Len(e.new)
    THEN Len(e.new) - Len(batch[2]) ELSE 0

\* n times None.
Nones(n) == [i \in 1..n |-> NoneRec]

\* The frames with the caller's old list as it is after an extension: the
\* frames of every dispatch hold the same list object.
WithOld(frames, records) ==
    [i \in 1..Len(frames) |->
        IF frames[i].k = "execute"
        THEN [frames[i] EXCEPT !.old_local = records]
        ELSE IF frames[i].k = "hook"
             THEN [frames[i] EXCEPT !.old_records = records]
             ELSE frames[i]]

\* The context with that list.
VarsWithOld(hv, records) ==
    IF hv.old.some THEN [hv EXCEPT !.old = Some(records)] ELSE hv

\* all(...) in the place of any(...).
AllCheck(condition, new_local, old_local) ==
    \A i \in 1..Min(Len(new_local), Len(old_local)) :
        Check(condition, new_local[i], old_local[i])

\* any(condition.check(n, o) for n, o in zip(new_local, old_local))
AnyCheck(condition, new_local, old_local) ==
    \E i \in 1..Min(Len(new_local), Len(old_local)) :
        Check(condition, new_local[i], old_local[i])

\* The gate without the test for a missing condition: any(...) over the pairs
\* with a missing condition taken as true for every pair.
FiresByPairs(h, new_local, old_local) ==
    AnyCheck(h.condition, new_local, old_local)

\* Whether _execute calls the method of registration h (lines 149-154).
Fires(h, new_local, old_local) ==
    h.condition = NoCond \/ AnyCheck(h.condition, new_local, old_local)

Top(t) == stack[t][Len(stack[t])]
Pop(t) == SubSeq(stack[t], 1, Len(stack[t]) - 1)
TopIs(t, kind) == stack[t] # << >> /\ Top(t).k = kind
HookDepth(t) == Cardinality({i \in 1..Len(stack[t]) : stack[t][i].k = "hook"})
InCommit(t) == \E i \in 1..Len(stack[t]) : stack[t][i].k = "commit"
SetStatus(id, st) == [disp EXCEPT ![id].st = st]

\* The finally block of _process without the four resets.
StaleVars(hv) == [hv EXCEPT !.depth = @ - 1]

\* The context as the finally block of _process leaves it (lines 188-192).
ClearedVars(hv) ==
    [new |-> NoneOpt, old |-> NoneOpt, event |-> NoneEvent,
     model |-> NoneName, depth |-> hv.depth - 1]

\* word in event, for a word that is a whole part of the event name.
Contains(event, word) == event.phase = word \/ event.op = word

\* The properties of HookContextState, read with the context hv of the
\* calling thread (lines 35-50); None is falsy.
is_before(hv) == IF hv.event # NoneEvent THEN hv.event.phase = "before" ELSE FALSE
is_after(hv) == IF hv.event # NoneEvent THEN hv.event.phase = "after" ELSE FALSE
is_create(hv) == IF hv.event # NoneEvent THEN Contains(hv.event, "create") ELSE FALSE
is_update(hv) == IF hv.event # NoneEvent THEN Contains(hv.event, "update") ELSE FALSE

\* History record of a handle call: the entry, the calling thread, the depth
\* of open atomic blocks at the call (atomic), the block the call now belongs
\* to (lvl) and what became of it (fate), the dispatch whose hook made the
\* call (parent), how far the entry got (st), whether _execute ran inline or
\* was deferred (how), whether the handle call has returned (ret), and how
\* often _process was run on the entry (runs).
NewDispatch(t, e, parent, returned) ==
    [e |-> e, t |-> t, atomic |-> in_atomic[t], lvl |-> in_atomic[t],
     fate |-> IF in_atomic[t] > 0 THEN "open" ELSE "none",
     parent |-> parent, st |-> "queued", how |-> "none", ret |-> returned,
     runs |-> 0, defs |-> {}]

\* The head read with queue[0], which leaves it in the deque.
peekleft(q) == q

\* queue.popleft(): the deque without its head (line 115).
popleft(q) == Tail(q)

\* One deque for all threads in the place of the thread-local one.
SharedQueue(t) == CHOOSE m \in MainThreads : TRUE

\* get_hook_queue(): the deque of the calling thread, created on first use
\* (the queues of the model start empty), named by its thread.
get_hook_queue(t) == t

\* HookHandler.handle up to the drain loop (lines 107-111), called with the
\* caller's frames `base` on the stack; `parent` is the dispatch whose hook
\* makes the call (0 for top-level code).
handle(t, event, model, new_records, old_records, base, parent) ==
    LET e == [id |-> Len(disp) + 1, cls |-> "HookHandler", event |-> event,
              model |-> model, new |-> new_records, old |-> old_records]
        q == Append(queue[get_hook_queue(t)], e)
    IN  /\ queue' = [queue EXCEPT ![get_hook_queue(t)] = q]
        /\ stack' = [stack EXCEPT ![t] =
                        IF Len(q) > 1 THEN base
                        ELSE Append(base, [k |-> "handle", id |-> e.id])]
        /\ disp' = Append(disp, NewDispatch(t, e, parent, Len(q) > 1))

\* Top-level code calls HookHandler.handle for an event of its bulk operation.
CallHandle(t, event) ==
    /\ stack[t] = << >>
    /\ ncalls < MaxCalls
    /\ ncalls' = ncalls + 1
    /\ handle(t, event, AccountModel, batch[1], batch[2], << >>, 0)
    /\ UNCHANGED << scopes, exits, repeats,
                    registry, registered, defined, hook_vars, in_atomic,
                    run_on_commit, hook_calls, batch, calls >>

\* The drain loop finds the queue empty: handle returns (line 114).
HandleReturn(t) ==
    /\ TopIs(t, "handle")
    /\ queue[get_hook_queue(t)] = << >>
    /\ stack' = [stack EXCEPT ![t] = Pop(t)]
    /\ disp' = [disp EXCEPT ![Top(t).id].ret = TRUE]
    /\ UNCHANGED << scopes, exits, repeats,
                    registry, registered, defined, queue, hook_vars, in_atomic,
                    run_on_commit, hook_calls, batch, ncalls, calls >>

\* popleft and _process of an after_* entry inside an atomic block: _execute
\* is handed to on_commit and the finally block runs (lines 115-133, 181-192).
ProcessDeferred(t) ==
    /\ TopIs(t, "handle")
    /\ queue[get_hook_queue(t)] # << >>
    /\ LET e == Head(queue[get_hook_queue(t)])
           hooks == SortedHooks(get_hooks(registry, e.model, e.event))
       IN  /\ in_atomic[t] > 0 /\ StartsWithAfter(e.event)
           /\ queue' = [queue EXCEPT ![get_hook_queue(t)] = popleft(@)]
           /\ run_on_commit' =
                  [run_on_commit EXCEPT ![t] =
                      Append(@, [sid |-> in_atomic[t], e |-> e, hooks |-> hooks])]
           /\ hook_vars' = [hook_vars EXCEPT ![t] =
                               ClearedVars([@ EXCEPT !.depth = @ + 1])]
           /\ disp' = [disp EXCEPT ![e.id].st = "deferred",
                                    ![e.id].how = "deferred",
                                    ![e.id].runs = @ + 1,
                                    ![e.id].defs = defined]
    /\ UNCHANGED << scopes, exits, repeats,
                    registry, registered, defined, stack, in_atomic,
                    hook_calls, batch, ncalls, calls >>

\* A frame whose registrations are looked up when _execute starts to run.
ExecuteFrameAtRun(e, hooks, inline) ==
    [k |-> "execute", e |-> e,
     hooks |-> SortedHooks(get_hooks(registry, e.model, e.event)), i |-> 1,
     new_local |-> e.new, old_local |-> OldLocal(e), pad |-> PadCount(e),
     inline |-> inline]

\* The frame of one _execute run (lines 135-139), up to the two len() calls
\* of lines 138-139.
ExecuteFrame(e, hooks, inline) ==
    [k |-> "execute", e |-> e, hooks |-> hooks, i |-> 1,
     new_local |-> e.new, old_local |-> OldLocal(e), pad |-> PadCount(e),
     inline |-> inline]

\* popleft and _process of an entry whose _execute runs inline
\* (lines 115-139, 181-186).
ProcessInline(t) ==
    /\ TopIs(t, "handle")
    /\ queue[get_hook_queue(t)] # << >>
    /\ LET e == Head(queue[get_hook_queue(t)])
           hooks == SortedHooks(get_hooks(registry, e.model, e.event))
       IN  /\ ~(in_atomic[t] > 0 /\ StartsWithAfter(e.event))
           /\ queue' = [queue EXCEPT ![get_hook_queue(t)] = popleft(@)]
           /\ hook_vars' =
                  [hook_vars EXCEPT ![t] =
                      [new |-> Some(e.new),
                       \* the list of the caller itself
                       old |-> Some(IF SharedOld THEN batch[2] ELSE e.old),
                       event |-> e.event, model |-> e.model,
                       depth |-> @.depth + 1]]
           /\ stack' = [stack EXCEPT ![t] =
                           Append(@, ExecuteFrame(e, hooks, TRUE))]
           /\ disp' = [disp EXCEPT ![e.id].st = "running",
                                    ![e.id].how = "inline",
                                    ![e.id].runs = @ + 1,
                                    ![e.id].defs = defined]
    /\ UNCHANGED << scopes, exits, repeats,
                    registry, registered, defined, in_atomic, run_on_commit,
                    hook_calls, batch, ncalls, calls >>

\* old_local += [None] * (...) (line 139): the caller's list is extended in
\* place by as many None as were computed from the lengths read before, which
\* another thread that pads the same list may have made too many by now.
ExecutePad(t) ==
    /\ TopIs(t, "execute")
    /\ Top(t).pad > 0
    /\ LET extended == batch[2] \o Nones(Top(t).pad)
       IN  /\ batch' = << batch[1], extended >>
           /\ stack' = [u \in Threads |->
                           IF u = t
                           THEN [WithOld(stack[u], extended)
                                     EXCEPT ![Len(stack[u])].pad = 0]
                           ELSE WithOld(stack[u], extended)]
           /\ hook_vars' = [u \in Threads |-> VarsWithOld(hook_vars[u], extended)]
    /\ UNCHANGED << scopes, exits, repeats,
                    registry, registered, defined, queue, in_atomic,
                    run_on_commit, hook_calls, ncalls, disp, calls >>

\* _execute is at the loop over the registrations (line 141).
AtLoop(t) == TopIs(t, "execute") /\ Top(t).pad = 0

\* Only the pairs for which the condition of the registration holds.
MatchingArgs(f) ==
    LET h == f.hooks[f.i]
        idx == SelectSeq([k \in 1..Len(f.new_local) |-> k],
                         LAMBDA k : Fires(h, << f.new_local[k] >>,
                                          << f.old_local[k] >>))
    IN  [new_records |-> [j \in 1..Len(idx) |-> f.new_local[idx[j]]],
         old_records |-> [j \in 1..Len(idx) |-> f.old_local[idx[j]]]]

\* The keyword arguments of method(...) for the registration the _execute
\* frame f is at (lines 171-175).
MethodArgs(f) == [new_records |-> f.new_local, old_records |-> f.old_local]

\* History record of a call of the method of registration h, or of what
\* became of it.
LogEntry(t, kind, f, h) ==
    [kind |-> kind, t |-> t, id |-> f.e.id, handler_cls |-> h.handler_cls,
     method_name |-> h.method_name, priority |-> h.priority,
     new_records |-> MethodArgs(f).new_records,
     old_records |-> MethodArgs(f).old_records,
     depth |-> hook_vars[t].depth, nest |-> HookDepth(t),
     commit |-> InCommit(t), atomic |-> in_atomic[t]]

\* The condition of the next registration is false for every pair: continue
\* (lines 149-154).
ExecuteSkip(t) ==
    /\ AtLoop(t)
    /\ LET f == Top(t)
       IN  /\ f.i <= Len(f.hooks)
           /\ ~Fires(f.hooks[f.i], f.new_local, f.old_local)
           /\ stack' = [stack EXCEPT ![t][Len(stack[t])].i = f.i + 1]
    /\ UNCHANGED << scopes, exits, repeats,
                    registry, registered, defined, queue, hook_vars, in_atomic,
                    run_on_commit, hook_calls, batch, ncalls, disp, calls >>

\* Whether handler_cls() raises: the __init__ of the class raises an Exception.
CtorRaises(c) == c = "BrokenInitHooks"

\* The keywords of the call method(old_records=..., new_records=...).
KeywordsPassed == {"old_records", "new_records"}

\* The method of registration h has a parameter for every keyword passed.
Accepts(h) == KeywordsPassed \subseteq MethodParams(h.handler_cls, h.method_name)

\* The next registration applies, but its method has no parameter for a
\* keyword of the call: the call raises TypeError before the method runs,
\* _execute logs it and goes on with the next registration (lines 170-179).
ExecuteBadCall(t) ==
    /\ AtLoop(t)
    /\ LET f == Top(t)
       IN  /\ f.i <= Len(f.hooks)
           /\ Fires(f.hooks[f.i], f.new_local, f.old_local)
           /\ ~CtorRaises(f.hooks[f.i].handler_cls)
           /\ ~Accepts(f.hooks[f.i])
           /\ stack' = [stack EXCEPT ![t][Len(stack[t])].i = f.i + 1]
           /\ calls' = Append(calls, LogEntry(t, "error", f, f.hooks[f.i]))
    /\ UNCHANGED << scopes, exits, repeats,
                    registry, registered, defined, queue, hook_vars, in_atomic,
                    run_on_commit, hook_calls, batch, ncalls, disp >>

\* The next registration applies: its method is called (lines 156-175).
ExecuteInvoke(t) ==
    /\ AtLoop(t)
    /\ LET f == Top(t)
       IN  /\ f.i <= Len(f.hooks)
           /\ Fires(f.hooks[f.i], f.new_local, f.old_local)
           /\ ~CtorRaises(f.hooks[f.i].handler_cls)
           /\ Accepts(f.hooks[f.i])
           /\ stack' = [stack EXCEPT ![t] =
                           Append(@, [k |-> "hook", h |-> f.hooks[f.i],
                                      pc |-> 1, id |-> f.e.id,
                                      new_records |-> MethodArgs(f).new_records,
                                      old_records |-> MethodArgs(f).old_records])]
           /\ calls' = Append(calls, LogEntry(t, "call", f, f.hooks[f.i]))
    /\ UNCHANGED << scopes, exits, repeats,
                    registry, registered, defined, queue, hook_vars, in_atomic,
                    run_on_commit, hook_calls, batch, ncalls, disp >>

\* The loop over the registrations is over: _execute returns, and for an
\* inline run the finally block of _process follows (lines 187-192).
ExecuteReturn(t) ==
    /\ AtLoop(t)
    /\ LET f == Top(t)
       IN  /\ f.i > Len(f.hooks)
           /\ stack' = [stack EXCEPT ![t] = Pop(t)]
           /\ hook_vars' = IF f.inline
                           THEN [hook_vars EXCEPT ![t] = ClearedVars(@)]
                           ELSE hook_vars
           /\ disp' = SetStatus(f.e.id, "done")
    /\ UNCHANGED << scopes, exits, repeats,
                    registry, registered, defined, queue, in_atomic,
                    run_on_commit, hook_calls, batch, ncalls, calls >>

\* -------------------------------------------------------------- hook code
\* The execute frame under a finished hook moves on to the next registration.
AfterHook(t) ==
    LET below == Pop(t)
    IN  [below EXCEPT ![Len(below)].i = @ + 1]

HookOp(t) ==
    LET f == Top(t)
        body == Body(f.h.handler_cls, f.h.method_name)
    IN  IF f.pc <= Len(body) THEN body[f.pc] ELSE [op |-> "return"]

\* The hook method returns (line 175).
HookReturn(t) ==
    /\ TopIs(t, "hook")
    /\ HookOp(t).op = "return"
    /\ stack' = [stack EXCEPT ![t] = AfterHook(t)]
    /\ UNCHANGED << scopes, exits, repeats,
                    registry, registered, defined, queue, hook_vars, in_atomic,
                    run_on_commit, hook_calls, batch, ncalls, disp, calls >>

\* The hook method raises: _execute catches the exception, logs it and goes
\* on with the next registration (lines 176-179).
HookRaise(t) ==
    /\ TopIs(t, "hook")
    /\ HookOp(t).op = "raise"
    /\ stack' = [stack EXCEPT ![t] = AfterHook(t)]
    /\ calls' = Append(calls, LogEntry(t, "error", stack[t][Len(stack[t]) - 1],
                                       Top(t).h))
    /\ UNCHANGED << scopes, exits, repeats,
                    registry, registered, defined, queue, hook_vars, in_atomic,
                    run_on_commit, hook_calls, batch, ncalls, disp >>

\* The pairs of zip(new_records, old_records) whose old record is None.
NoneOldPairs(new_records, old_records) ==
    {k \in 1..Min(Len(new_records), Len(old_records)) : old_records[k] = NoneRec}

\* The hook method reads an attribute of the old record of every pair, and
\* every old record is there.
HookReadOld(t) ==
    /\ TopIs(t, "hook")
    /\ HookOp(t).op = "read_old"
    /\ NoneOldPairs(Top(t).new_records, Top(t).old_records) = {}
    /\ stack' = [stack EXCEPT ![t][Len(stack[t])].pc = @ + 1]
    /\ UNCHANGED << scopes, exits, repeats,
                    registry, registered, defined, queue, hook_vars,
                    in_atomic, run_on_commit, hook_calls, batch, ncalls, disp,
                    calls >>

\* The old record of a pair is None: reading its attribute raises
\* AttributeError, which _execute catches and logs (lines 176-179).
HookReadOldRaise(t) ==
    /\ TopIs(t, "hook")
    /\ HookOp(t).op = "read_old"
    /\ NoneOldPairs(Top(t).new_records, Top(t).old_records) # {}
    /\ stack' = [stack EXCEPT ![t] = AfterHook(t)]
    /\ calls' = Append(calls, LogEntry(t, "error", stack[t][Len(stack[t]) - 1],
                                       Top(t).h))
    /\ UNCHANGED << scopes, exits, repeats,
                    registry, registered, defined, queue, hook_vars,
                    in_atomic, run_on_commit, hook_calls, batch, ncalls, disp >>

\* error_state["hook_calls"].append(...)
HookCount(t) ==
    /\ TopIs(t, "hook")
    /\ HookOp(t).op = "count"
    /\ hook_calls' = hook_calls + 1
    /\ stack' = [stack EXCEPT ![t][Len(stack[t])].pc = @ + 1]
    /\ UNCHANGED << scopes, exits, repeats,
                    registry, registered, defined, queue, hook_vars, in_atomic,
                    run_on_commit, batch, ncalls, disp, calls >>

\* The hook method calls HookHandler.handle with the batch it was given.
HookHandle(t) ==
    /\ TopIs(t, "hook")
    /\ LET f == Top(t)
           o == HookOp(t)
           base == [stack[t] EXCEPT ![Len(stack[t])].pc = @ + 1]
       IN  /\ \/ o.op = "handle"
              \/ o.op = "handle_if" /\ hook_calls < RetriggerLimit
           /\ handle(t, o.event, AccountModel, f.new_records, f.old_records,
                     base, f.id)
    /\ UNCHANGED << scopes, exits, repeats,
                    registry, registered, defined, hook_vars, in_atomic,
                    run_on_commit, hook_calls, batch, ncalls, calls >>

\* The recursion limit of the hook is reached: no further handle call.
HookNoHandle(t) ==
    /\ TopIs(t, "hook")
    /\ HookOp(t).op = "handle_if"
    /\ hook_calls >= RetriggerLimit
    /\ stack' = [stack EXCEPT ![t][Len(stack[t])].pc = @ + 1]
    /\ UNCHANGED << scopes, exits, repeats,
                    registry, registered, defined, queue, hook_vars, in_atomic,
                    run_on_commit, hook_calls, batch, ncalls, disp, calls >>

\* The hook method executes a class statement: HookMeta.__new__ registers
\* the hooks of the class while the dispatch is running.
HookDefine(t) ==
    /\ TopIs(t, "hook")
    /\ HookOp(t).op = "define"
    /\ HookOp(t).cls \notin defined
    /\ LET st == ClassStatement([registry |-> registry,
                                 registered |-> registered], HookOp(t).cls)
       IN  /\ registry' = st.registry
           /\ registered' = st.registered
    /\ defined' = defined \cup {HookOp(t).cls}
    /\ stack' = [stack EXCEPT ![t][Len(stack[t])].pc = @ + 1]
    /\ UNCHANGED << scopes, exits, repeats,
                    queue, hook_vars, in_atomic, run_on_commit,
                    hook_calls, batch, ncalls, disp, calls >>

\* The class exists already: the hook method does not define it again.
HookNoDefine(t) ==
    /\ TopIs(t, "hook")
    /\ HookOp(t).op = "define"
    /\ HookOp(t).cls \in defined
    /\ stack' = [stack EXCEPT ![t][Len(stack[t])].pc = @ + 1]
    /\ UNCHANGED << scopes, exits, repeats,
                    registry, registered, defined, queue, hook_vars,
                    in_atomic, run_on_commit, hook_calls, batch, ncalls, disp,
                    calls >>

\* model_cls._meta.get_field(field) is a forward relation (lines 85-91).
IsRelation(field) == field = << "created_by" >>

\* The loop over related_fields for one record that has a fetched row (lines
\* 75-98): a cached field is skipped, a nested field raises ValueError, and a
\* relation is set on the record and entered in its fields_cache.
RECURSIVE SetFields(_, _)
SetFields(obj, fields) ==
    IF fields = << >> THEN [obj |-> obj, raised |-> FALSE]
    ELSE LET field == Head(fields)
         IN  IF field \in obj.attrs.fields_cache
             THEN SetFields(obj, Tail(fields))
             ELSE IF Len(field) > 1 THEN [obj |-> obj, raised |-> TRUE]
             ELSE IF ~IsRelation(field) THEN SetFields(obj, Tail(fields))
             ELSE SetFields(Obj([obj.attrs EXCEPT !.fields_cache =
                                                      @ \cup {field}]),
                            Tail(fields))

\* The loop over new_records (lines 71-98), the records `done` behind it and
\* the records `rest` to come: the records as the loop leaves them, and
\* whether it raised.
RECURSIVE PreloadFrom(_, _, _, _)
PreloadFrom(done, rest, ids_to_fetch, related_fields) ==
    IF rest = << >> THEN [records |-> done, raised |-> FALSE]
    ELSE IF Head(rest).attrs.pk \notin ids_to_fetch
         THEN PreloadFrom(Append(done, Head(rest)), Tail(rest), ids_to_fetch,
                          related_fields)
         ELSE LET r == SetFields(Head(rest), related_fields)
              IN  IF r.raised
                  THEN [records |-> Append(done, r.obj) \o Tail(rest),
                        raised |-> TRUE]
                  ELSE PreloadFrom(Append(done, r.obj), Tail(rest),
                                   ids_to_fetch, related_fields)

\* The wrapper of select_related(*related_fields) up to the call of the
\* decorated function (decorators.py lines 37-100): the records with a primary
\* key and a field that is not cached are fetched, and on every record that
\* has a fetched row each field that is not cached is set in place, a nested
\* field raising ValueError.
PreloadResult(related_fields, new_records) ==
    LET Missing(obj) ==
            {k \in 1..Len(related_fields) :
                related_fields[k] \notin obj.attrs.fields_cache}
        ids_to_fetch ==
            {new_records[i].attrs.pk :
                i \in {j \in 1..Len(new_records) :
                          /\ new_records[j].attrs.pk # NoneRec
                          /\ Missing(new_records[j]) # {}}}
    IN  PreloadFrom(<< >>, new_records, ids_to_fetch, related_fields)

PreloadRaises(related_fields, new_records) ==
    PreloadResult(related_fields, new_records).raised

\* The frames with the records of new_records as the wrapper has left them:
\* every dispatch of the bulk operation holds the same record objects.
WithNew(frames, records) ==
    [i \in 1..Len(frames) |->
        IF frames[i].k = "execute"
        THEN [frames[i] EXCEPT !.new_local = records]
        ELSE IF frames[i].k = "hook"
             THEN [frames[i] EXCEPT !.new_records = records]
             ELSE frames[i]]

\* The context with those records.
VarsWithNew(hv, records) ==
    IF hv.new.some THEN [hv EXCEPT !.new = Some(records)] ELSE hv

\* The wrapper has preloaded what it could, on the records of the caller, and
\* calls the decorated function.
HookPreload(t) ==
    /\ TopIs(t, "hook")
    /\ HookOp(t).op = "preload"
    /\ LET r == PreloadResult(RelatedFields(Top(t).h.handler_cls,
                                            Top(t).h.method_name),
                              Top(t).new_records)
           frames == WithNew(stack[t], r.records)
       IN  /\ ~r.raised
           /\ stack' = [stack EXCEPT ![t] =
                           [frames EXCEPT ![Len(frames)].pc = @ + 1]]
           /\ batch' = << r.records, batch[2] >>
           /\ hook_vars' = [hook_vars EXCEPT ![t] = VarsWithNew(@, r.records)]
           /\ calls' = Append(calls, LogEntry(t, "run", frames[Len(frames) - 1],
                                              Top(t).h))
    /\ UNCHANGED << scopes, exits, repeats,
                    registry, registered, defined, queue, in_atomic,
                    run_on_commit, hook_calls, ncalls, disp >>

\* The wrapper raises before it calls the decorated function, after it has
\* set what it got to: _execute catches the exception, logs it and goes on
\* with the next registration.
HookPreloadRaise(t) ==
    /\ TopIs(t, "hook")
    /\ HookOp(t).op = "preload"
    /\ LET r == PreloadResult(RelatedFields(Top(t).h.handler_cls,
                                            Top(t).h.method_name),
                              Top(t).new_records)
           frames == WithNew(stack[t], r.records)
           below == SubSeq(frames, 1, Len(frames) - 1)
       IN  /\ r.raised
           /\ stack' = [stack EXCEPT ![t] =
                           [below EXCEPT ![Len(below)].i = @ + 1]]
           /\ batch' = << r.records, batch[2] >>
           /\ hook_vars' = [hook_vars EXCEPT ![t] = VarsWithNew(@, r.records)]
           /\ calls' = Append(calls, LogEntry(t, "error", frames[Len(frames) - 1],
                                              Top(t).h))
    /\ UNCHANGED << scopes, exits, repeats,
                    registry, registered, defined, queue, in_atomic,
                    run_on_commit, hook_calls, ncalls, disp >>

\* The inline _execute frames on the stack of t: its active _process calls.
InlineFrames(t) ==
    {i \in 1..Len(stack[t]) : stack[t][i].k = "execute" /\ stack[t][i].inline}

\* The finally block of _process run once for each of n active calls.
RECURSIVE Unwind(_, _)
Unwind(hv, n) == IF n = 0 THEN hv ELSE Unwind(ClearedVars(hv), n - 1)

\* The dispatches whose _execute is on the stack of t.
Executing(t) ==
    {stack[t][i].e.id : i \in {j \in 1..Len(stack[t]) : stack[t][j].k = "execute"}}

\* The hook method raises an exception that is not an Exception.  The except
\* clause of line 176 does not catch it, in this _execute or in one further
\* down the stack: it leaves every frame of the thread, and the finally block
\* of each active _process runs (lines 187-192).
HookInterrupt(t) ==
    /\ TopIs(t, "hook")
    /\ HookOp(t).op = "interrupt_if"
    /\ Top(t).new_records # << >>
    /\ stack' = [stack EXCEPT ![t] = << >>]
    /\ hook_vars' = [hook_vars EXCEPT
                        ![t] = Unwind(@, Cardinality(InlineFrames(t)))]
    /\ disp' = [id \in 1..Len(disp) |->
                   IF id \in Executing(t)
                   THEN [disp[id] EXCEPT !.st = "raised"]
                   ELSE disp[id]]
    /\ calls' = Append(calls, LogEntry(t, "raise", stack[t][Len(stack[t]) - 1],
                                       Top(t).h))
    /\ UNCHANGED << scopes, exits, repeats,
                    registry, registered, defined, queue, in_atomic,
                    run_on_commit, hook_calls, batch, ncalls >>

\* The hook frames on the stack of t.
HookFrames(t) == {i \in 1..Len(stack[t]) : stack[t][i].k = "hook"}

\* The next registration applies and handler_cls() raises an Exception, outside
\* the try block of _execute (line 156).  The exception leaves this _execute
\* and, for an inline run, _process through its finally block, and the drain
\* loop of the handle call.  When that call was made by a hook method, the
\* exception leaves the method too and the except clause of the _execute that
\* called the method catches and logs it (lines 176-179); with no hook method
\* further down it leaves every frame of the thread.
ExecuteRaise(t) ==
    /\ AtLoop(t)
    /\ LET f == Top(t)
           caller == IF HookFrames(t) = {} THEN 0
                     ELSE CHOOSE i \in HookFrames(t) :
                              \A j \in HookFrames(t) : j <= i
           left == {i \in InlineFrames(t) : i > caller}
           raise_entry == LogEntry(t, "raise", f, f.hooks[f.i])
       IN  /\ f.i <= Len(f.hooks)
           /\ Fires(f.hooks[f.i], f.new_local, f.old_local)
           /\ CtorRaises(f.hooks[f.i].handler_cls)
           /\ hook_vars' = [hook_vars EXCEPT ![t] = Unwind(@, Cardinality(left))]
           /\ disp' = [id \in 1..Len(disp) |->
                          IF \E i \in (caller + 1)..Len(stack[t]) :
                                 stack[t][i].k = "execute" /\ stack[t][i].e.id = id
                          THEN [disp[id] EXCEPT !.st = "raised"]
                          ELSE disp[id]]
           /\ IF caller = 0
              THEN /\ stack' = [stack EXCEPT ![t] = << >>]
                   /\ calls' = Append(calls, raise_entry)
              ELSE /\ stack' = [stack EXCEPT ![t] =
                                  [SubSeq(stack[t], 1, caller - 1)
                                       EXCEPT ![caller - 1].i = @ + 1]]
                   /\ calls' = calls \o
                          << raise_entry,
                             [LogEntry(t, "error", stack[t][caller - 1],
                                       stack[t][caller].h)
                                  EXCEPT !.depth = @ - Cardinality(left)] >>
    /\ UNCHANGED << scopes, exits, repeats,
                    registry, registered, defined, queue, in_atomic,
                    run_on_commit, hook_calls, batch, ncalls >>

\* The batch has no new record: the hook method raises nothing.
HookNoInterrupt(t) ==
    /\ TopIs(t, "hook")
    /\ HookOp(t).op = "interrupt_if"
    /\ Top(t).new_records = << >>
    /\ stack' = [stack EXCEPT ![t][Len(stack[t])].pc = @ + 1]
    /\ UNCHANGED << scopes, exits, repeats,
                    registry, registered, defined, queue, hook_vars, in_atomic,
                    run_on_commit, hook_calls, batch, ncalls, disp, calls >>

\* ------------------------------------------------------------ transactions
\* Top-level code enters transaction.atomic() around a dispatch to come.
AtomicEnter(t) ==
    /\ stack[t] = << >>
    /\ in_atomic[t] < MaxAtomic
    /\ ncalls < MaxCalls
    /\ in_atomic' = [in_atomic EXCEPT ![t] = @ + 1]
    /\ UNCHANGED << scopes, exits, repeats,
                    registry, registered, defined, queue, hook_vars, stack,
                    run_on_commit, hook_calls, batch, ncalls, disp, calls >>

\* The callbacks registered at savepoint level sid or deeper.
RECURSIVE DropFrom(_, _)
DropFrom(cbs, sid) ==
    IF cbs = << >> THEN << >>
    ELSE IF Head(cbs).sid >= sid THEN DropFrom(Tail(cbs), sid)
         ELSE << Head(cbs) >> \o DropFrom(Tail(cbs), sid)

\* The atomic block exits normally.  An inner block releases its savepoint
\* and its callbacks now belong to the enclosing block; the outermost block
\* commits and the connection runs the callbacks in order.
AtomicCommit(t) ==
    /\ stack[t] = << >>
    /\ in_atomic[t] > 0
    /\ in_atomic' = [in_atomic EXCEPT ![t] = @ - 1]
    /\ IF in_atomic[t] > 1
       THEN /\ run_on_commit' =
                   [run_on_commit EXCEPT ![t] =
                       [i \in 1..Len(@) |->
                           [@[i] EXCEPT !.sid = Min(@, in_atomic[t] - 1)]]]
            /\ stack' = stack
       ELSE /\ run_on_commit' = [run_on_commit EXCEPT ![t] = << >>]
            /\ stack' = [stack EXCEPT ![t] =
                            << [k |-> "commit", cbs |-> run_on_commit[t]] >>]
    /\ disp' = [id \in 1..Len(disp) |->
                   IF disp[id].t = t /\ disp[id].fate = "open"
                   THEN IF in_atomic[t] > 1
                        THEN [disp[id] EXCEPT !.lvl = Min(@, in_atomic[t] - 1)]
                        ELSE [disp[id] EXCEPT !.fate = "committed"]
                   ELSE disp[id]]
    /\ UNCHANGED << scopes, exits, repeats,
                    registry, registered, defined, queue, hook_vars,
                    hook_calls, batch, ncalls, calls >>

\* The atomic block exits with an exception: the callbacks registered inside
\* it are discarded.
AtomicRollback(t) ==
    /\ stack[t] = << >>
    /\ in_atomic[t] > 0
    /\ in_atomic' = [in_atomic EXCEPT ![t] = @ - 1]
    /\ run_on_commit' = [run_on_commit EXCEPT ![t] = DropFrom(@, in_atomic[t])]
    /\ disp' = [id \in 1..Len(disp) |->
                   IF /\ disp[id].t = t
                      /\ disp[id].fate = "open"
                      /\ disp[id].lvl >= in_atomic[t]
                   THEN [disp[id] EXCEPT
                            !.fate = "rolledback",
                            !.st = IF @ = "deferred" THEN "discarded" ELSE @]
                   ELSE disp[id]]
    /\ UNCHANGED << scopes, exits, repeats,
                    registry, registered, defined, queue, hook_vars, stack,
                    hook_calls, batch, ncalls, calls >>

\* The connection calls the next on_commit callback, a deferred _execute.
CommitNext(t) ==
    /\ TopIs(t, "commit")
    /\ Top(t).cbs # << >>
    /\ LET cb == Head(Top(t).cbs)
           rest == [stack[t] EXCEPT ![Len(stack[t])].cbs = Tail(@)]
       IN  /\ stack' = [stack EXCEPT ![t] =
                           Append(rest, ExecuteFrame(cb.e, cb.hooks, FALSE))]
           /\ disp' = SetStatus(cb.e.id, "running")
    /\ UNCHANGED << scopes, exits, repeats,
                    registry, registered, defined, queue, hook_vars, in_atomic,
                    run_on_commit, hook_calls, batch, ncalls, calls >>

\* Every callback has run.
CommitDone(t) ==
    /\ TopIs(t, "commit")
    /\ Top(t).cbs = << >>
    /\ stack' = [stack EXCEPT ![t] = Pop(t)]
    /\ UNCHANGED << scopes, exits, repeats,
                    registry, registered, defined, queue, hook_vars, in_atomic,
                    run_on_commit, hook_calls, batch, ncalls, disp, calls >>

\* The hook method enters transaction.atomic().
HookAtomicEnter(t) ==
    /\ TopIs(t, "hook")
    /\ HookOp(t).op = "atomic"
    /\ in_atomic' = [in_atomic EXCEPT ![t] = @ + 1]
    /\ stack' = [stack EXCEPT ![t][Len(stack[t])].pc = @ + 1]
    /\ UNCHANGED << scopes, exits, repeats,
                    registry, registered, defined, queue, hook_vars,
                    run_on_commit, hook_calls, batch, ncalls, disp, calls >>

\* The atomic block of the hook method exits normally: as in AtomicCommit, an
\* inner block hands its callbacks to the enclosing one and the outermost
\* block commits and runs them, here before the hook method goes on.
HookAtomicCommit(t) ==
    /\ TopIs(t, "hook")
    /\ HookOp(t).op = "exit"
    /\ in_atomic[t] > 0
    /\ in_atomic' = [in_atomic EXCEPT ![t] = @ - 1]
    /\ LET base == [stack[t] EXCEPT ![Len(stack[t])].pc = @ + 1]
       IN  IF in_atomic[t] > 1
           THEN /\ run_on_commit' =
                       [run_on_commit EXCEPT ![t] =
                           [i \in 1..Len(@) |->
                               [@[i] EXCEPT !.sid = Min(@, in_atomic[t] - 1)]]]
                /\ stack' = [stack EXCEPT ![t] = base]
           ELSE /\ run_on_commit' = [run_on_commit EXCEPT ![t] = << >>]
                /\ stack' = [stack EXCEPT ![t] =
                                Append(base, [k |-> "commit",
                                              cbs |-> run_on_commit[t]])]
    /\ disp' = [id \in 1..Len(disp) |->
                   IF disp[id].t = t /\ disp[id].fate = "open"
                   THEN IF in_atomic[t] > 1
                        THEN [disp[id] EXCEPT !.lvl = Min(@, in_atomic[t] - 1)]
                        ELSE [disp[id] EXCEPT !.fate = "committed"]
                   ELSE disp[id]]
    /\ UNCHANGED << scopes, exits, repeats,
                    registry, registered, defined, queue, hook_vars,
                    hook_calls, batch, ncalls, calls >>

\* An exception is raised at the end of the atomic block of the hook method:
\* the block rolls back and discards the callbacks registered inside it, as in
\* AtomicRollback, and the exception leaves the hook method, to be caught and
\* logged by _execute (lines 176-179).
HookAtomicRollback(t) ==
    /\ TopIs(t, "hook")
    /\ HookOp(t).op = "exit"
    /\ in_atomic[t] > 0
    /\ in_atomic' = [in_atomic EXCEPT ![t] = @ - 1]
    /\ run_on_commit' = [run_on_commit EXCEPT ![t] = DropFrom(@, in_atomic[t])]
    /\ disp' = [id \in 1..Len(disp) |->
                   IF /\ disp[id].t = t
                      /\ disp[id].fate = "open"
                      /\ disp[id].lvl >= in_atomic[t]
                   THEN [disp[id] EXCEPT
                            !.fate = "rolledback",
                            !.st = IF @ = "deferred" THEN "discarded" ELSE @]
                   ELSE disp[id]]
    /\ stack' = [stack EXCEPT ![t] = AfterHook(t)]
    /\ calls' = Append(calls, LogEntry(t, "error", stack[t][Len(stack[t]) - 1],
                                       Top(t).h))
    /\ UNCHANGED << scopes, exits, repeats,
                    registry, registered, defined, queue, hook_vars,
                    hook_calls, batch, ncalls >>

\* ---------------------------------------------------------- specification
Next ==
    \E t \in MainThreads :
        \/ \E c \in ClassNames : DefineClass(t, c)
        \/ \E event \in HookedEvents : CallHandle(t, event)
        \/ HandleReturn(t)
        \/ ProcessDeferred(t)
        \/ ProcessInline(t)
        \/ ExecutePad(t)
        \/ ExecuteSkip(t)
        \/ ExecuteInvoke(t)
        \/ ExecuteReturn(t)
        \/ HookReturn(t)
        \/ HookRaise(t)
        \/ HookCount(t)
        \/ HookHandle(t)
        \/ HookNoHandle(t)
        \/ HookInterrupt(t)
        \/ HookNoInterrupt(t)
        \/ AtomicEnter(t)
        \/ AtomicCommit(t)
        \/ AtomicRollback(t)
        \/ CommitNext(t)
        \/ CommitDone(t)

Spec == Init /\ [][Next]_vars

\* ----------------------------------------------- registry maintenance
\* Test code that defines hook classes, clears the registry, registers hooks
\* itself and enters registry scopes, then runs one bulk operation with an
\* empty batch, inside the scopes or after them, and leaves the scopes.
InitRegistry == Init /\ batch = << << >>, << >> >>

NextRegistry ==
    \E t \in MainThreads :
        \/ \E c \in ClassNames : DefineClass(t, c)
        \/ ClearHooks(t)
        \/ \E c \in ClassNames, k \in 1..5 : RegisterDirect(t, c, k)
        \/ IsolatedEnter(t)
        \/ TemporaryHookEnter(t)
        \/ ScopeExit(t)
        \/ \E event \in Events : CallHandle(t, event)
        \/ HandleReturn(t)
        \/ ProcessInline(t)
        \/ ExecuteSkip(t)
        \/ ExecuteInvoke(t)
        \/ ExecuteReturn(t)
        \/ HookReturn(t)
        \/ HookRaise(t)
        \/ HookCount(t)
        \/ HookHandle(t)
        \/ HookNoHandle(t)
        \/ HookNoInterrupt(t)

SpecRegistry == InitRegistry /\ [][NextRegistry]_vars

\* ------------------------------------------------- repeated registrations
\* Test code that defines hook classes, registers hooks that are stored a
\* second time, by a call of register_hook and by entering temporary_hook,
\* then runs one bulk operation, inside the scopes or after them.  The
\* classes are ConcurrencyHook of the tests and two classes written for the
\* model: RepeatHooks, with a method annotated twice for one event around an
\* annotation for another event, and GatedHooks.  The batch is one whose
\* records do not change or one with fewer old records than new ones.
InitRepeat ==
    /\ Init
    /\ batch \in { << <<Account(2), Account(1)>>, <<Account(2), Account(1)>> >>,
                    << <<Account(1), Account(2)>>, <<Account(1)>> >> }

NextRepeat ==
    \E t \in MainThreads :
        \/ \E c \in {"ConcurrencyHook", "RepeatHooks", "GatedHooks"} :
               \/ DefineClass(t, c)
               \/ \E k \in 1..4 : RegisterAgain(t, c, k)
        \/ TemporaryHookOf(t, "ConcurrencyHook", 1)
        \/ ScopeExit(t)
        \/ \E event \in Events : CallHandle(t, event)
        \/ HandleReturn(t)
        \/ ProcessInline(t)
        \/ ExecutePad(t)
        \/ ExecuteSkip(t)
        \/ ExecuteInvoke(t)
        \/ ExecuteReturn(t)
        \/ HookReturn(t)

SpecRepeat == InitRepeat /\ [][NextRepeat]_vars

\* ------------------------------------------------- class definitions
\* Test code that defines the classes of the registration tests and then runs
\* one bulk operation, outside a transaction.
NextClasses ==
    \E t \in MainThreads :
        \/ \E c \in DecoratorClassNames : DefineClass(t, c)
        \/ \E event \in Events : CallHandle(t, event)
        \/ HandleReturn(t)
        \/ ProcessInline(t)
        \/ ExecutePad(t)
        \/ ExecuteInvoke(t)
        \/ ExecuteReturn(t)
        \/ HookReturn(t)

SpecClasses == Init /\ [][NextClasses]_vars

\* ------------------------------------------------- recovery
\* The orders in which the hook classes of the recovery scenarios are defined.
RecoveryClassOrders ==
    { << "ChainHooks" >>, << "BrokenInitHooks" >>,
      << "BrokenInitHooks", "ChainHooks" >> }

\* The class statements of the classes cs, in order.
RECURSIVE DefineAll(_, _)
DefineAll(st, cs) ==
    IF cs = << >> THEN st
    ELSE DefineAll(ClassStatement(st, Head(cs)), Tail(cs))

\* The hook classes are defined at import; code outside a transaction then
\* makes handle calls, catching what a call raises.
InitRecovery ==
    /\ \E cs \in RecoveryClassOrders :
           LET st == DefineAll([registry |-> [k \in Models \X Events |-> << >>],
                                registered |-> {}], cs)
           IN  /\ registry = st.registry
               /\ registered = st.registered
               /\ defined = {cs[i] : i \in 1..Len(cs)}
    /\ queue = [t \in Threads |-> << >>]
    /\ hook_vars = [t \in Threads |-> HookVarsInit]
    /\ stack = [t \in Threads |-> << >>]
    /\ in_atomic = [t \in Threads |-> 0]
    /\ run_on_commit = [t \in Threads |-> << >>]
    /\ hook_calls = 0
    /\ batch \in Batches
    /\ ncalls = 0
    /\ disp = << >>
    /\ calls = << >>
    /\ scopes = << >>
    /\ exits = << >>
    /\ repeats = {}

\* A handle call of the thread has raised into top-level code.
HasRaised(t) ==
    \E i \in 1..Len(calls) :
        calls[i].kind = "raise" /\ calls[i].t = t /\ disp[calls[i].id].st = "raised"

\* Top-level code has caught the exception of a handle call and calls
\* HookHandler.handle again, once.
CallAfterRaise(t, event) ==
    /\ stack[t] = << >>
    /\ HasRaised(t)
    /\ ncalls < MaxCalls + 1
    /\ ncalls' = ncalls + 1
    /\ handle(t, event, AccountModel, batch[1], batch[2], << >>, 0)
    /\ UNCHANGED << scopes, exits, repeats,
                    registry, registered, defined, hook_vars, in_atomic,
                    run_on_commit, hook_calls, batch, calls >>

NextRecovery ==
    \E t \in MainThreads :
        \/ \E event \in HookedEvents : CallHandle(t, event)
        \/ \E event \in HookedEvents : CallAfterRaise(t, event)
        \/ HandleReturn(t)
        \/ ProcessInline(t)
        \/ ExecutePad(t)
        \/ ExecuteInvoke(t)
        \/ ExecuteRaise(t)
        \/ ExecuteReturn(t)
        \/ HookReturn(t)
        \/ HookCount(t)
        \/ HookHandle(t)
        \/ HookNoHandle(t)
        \/ HookInterrupt(t)
        \/ HookNoInterrupt(t)

SpecRecovery == InitRecovery /\ [][NextRecovery]_vars

\* ------------------------------------------------- transactions in hooks
\* A hook class whose method dispatches an after_* event inside an atomic
\* block of its own is defined at import; top-level code runs one bulk
\* operation, inside a transaction or outside.
InitAtomicHooks ==
    /\ LET st == ClassStatement([registry |-> [k \in Models \X Events |-> << >>],
                                 registered |-> {}], "AtomicHooks")
       IN  /\ registry = st.registry
           /\ registered = st.registered
    /\ defined = {"AtomicHooks"}
    /\ queue = [t \in Threads |-> << >>]
    /\ hook_vars = [t \in Threads |-> HookVarsInit]
    /\ stack = [t \in Threads |-> << >>]
    /\ in_atomic = [t \in Threads |-> 0]
    /\ run_on_commit = [t \in Threads |-> << >>]
    /\ hook_calls = 0
    /\ batch \in Batches
    /\ ncalls = 0
    /\ disp = << >>
    /\ calls = << >>
    /\ scopes = << >>
    /\ exits = << >>
    /\ repeats = {}

NextAtomicHooks ==
    \E t \in MainThreads :
        \/ \E event \in HookedEvents : CallHandle(t, event)
        \/ HandleReturn(t)
        \/ ProcessDeferred(t)
        \/ ProcessInline(t)
        \/ ExecutePad(t)
        \/ ExecuteInvoke(t)
        \/ ExecuteReturn(t)
        \/ HookReturn(t)
        \/ HookHandle(t)
        \/ HookAtomicEnter(t)
        \/ HookAtomicCommit(t)
        \/ HookAtomicRollback(t)
        \/ AtomicEnter(t)
        \/ AtomicCommit(t)
        \/ AtomicRollback(t)
        \/ CommitNext(t)
        \/ CommitDone(t)

SpecAtomicHooks == InitAtomicHooks /\ [][NextAtomicHooks]_vars

\* ------------------------------------------------- late registrations
\* Top-level code executes the class statement of hook class c at any moment
\* between its dispatches, inside a transaction or outside.
DefineLate(t, c) ==
    /\ stack[t] = << >>
    /\ c \notin defined
    /\ LET st == ClassStatement([registry |-> registry,
                                 registered |-> registered], c)
       IN  /\ registry' = st.registry
           /\ registered' = st.registered
    /\ defined' = defined \cup {c}
    /\ UNCHANGED << scopes, exits, repeats,
                    queue, hook_vars, stack, in_atomic, run_on_commit,
                    hook_calls, batch, ncalls, disp, calls >>

\* Top-level code makes a further handle call in the transaction it has
\* open.
CallInBlock(t, event) ==
    /\ stack[t] = << >>
    /\ in_atomic[t] > 0
    /\ ncalls >= 1 /\ ncalls < MaxCalls + 1
    /\ ncalls' = ncalls + 1
    /\ handle(t, event, AccountModel, batch[1], batch[2], << >>, 0)
    /\ UNCHANGED << scopes, exits, repeats,
                    registry, registered, defined, hook_vars, in_atomic,
                    run_on_commit, hook_calls, batch, calls >>

\* RegisteringHooks is defined at import; LateHooks is defined later, by a
\* hook method of RegisteringHooks or by top-level code.
InitLate ==
    /\ LET st == ClassStatement([registry |-> [k \in Models \X Events |-> << >>],
                                 registered |-> {}], "RegisteringHooks")
       IN  /\ registry = st.registry
           /\ registered = st.registered
    /\ defined = {"RegisteringHooks"}
    /\ queue = [t \in Threads |-> << >>]
    /\ hook_vars = [t \in Threads |-> HookVarsInit]
    /\ stack = [t \in Threads |-> << >>]
    /\ in_atomic = [t \in Threads |-> 0]
    /\ run_on_commit = [t \in Threads |-> << >>]
    /\ hook_calls = 0
    /\ batch \in Batches
    /\ ncalls = 0
    /\ disp = << >>
    /\ calls = << >>
    /\ scopes = << >>
    /\ exits = << >>
    /\ repeats = {}

NextLate ==
    \E t \in MainThreads :
        \/ DefineLate(t, "LateHooks")
        \/ \E event \in HookedEvents : CallHandle(t, event)
        \/ \E event \in HookedEvents : CallInBlock(t, event)
        \/ HandleReturn(t)
        \/ ProcessDeferred(t)
        \/ ProcessInline(t)
        \/ ExecutePad(t)
        \/ ExecuteInvoke(t)
        \/ ExecuteReturn(t)
        \/ HookReturn(t)
        \/ HookDefine(t)
        \/ HookNoDefine(t)
        \/ HookHandle(t)
        \/ AtomicEnter(t)
        \/ AtomicCommit(t)
        \/ AtomicRollback(t)
        \/ CommitNext(t)
        \/ CommitDone(t)

SpecLate == InitLate /\ [][NextLate]_vars

\* ------------------------------------------------- function hooks
\* Top-level code defines a hook class or decorates a function with bulk_hook,
\* and then runs one bulk operation, outside a transaction.
NextBulkHook ==
    \E t \in MainThreads :
        \/ DefineClass(t, "AccountHooks")
        \/ \E f \in BulkFunctions, event \in Events,
              when \in {NoCond, BalanceTo2}, priority \in BulkPriorities :
               BulkHook(t, f, event, when, priority)
        \/ \E event \in Events : CallHandle(t, event)
        \/ HandleReturn(t)
        \/ ProcessInline(t)
        \/ ExecutePad(t)
        \/ ExecuteSkip(t)
        \/ ExecuteBadCall(t)
        \/ ExecuteInvoke(t)
        \/ ExecuteReturn(t)
        \/ HookReturn(t)
        \/ HookReadOld(t)
        \/ HookReadOldRaise(t)

SpecBulkHook == Init /\ [][NextBulkHook]_vars

\* ------------------------------------------------- decorated functions
\* The module of function f is imported: its decorator line is executed.
Decorate(t, f, event) ==
    /\ f \in BulkFunctions
    /\ BulkHook(t, f, event, NoCond, GivenPriority(f))

\* Top-level code imports a module with a function decorated with bulk_hook
\* and then runs one bulk operation, outside a transaction.
NextDecorated ==
    \E t \in MainThreads :
        \/ \E f \in BulkFunctions, event \in Events : Decorate(t, f, event)
        \/ \E event \in Events : CallHandle(t, event)
        \/ HandleReturn(t)
        \/ ProcessInline(t)
        \/ ExecutePad(t)
        \/ ExecuteBadCall(t)
        \/ ExecuteReturn(t)

SpecDecorated == Init /\ [][NextDecorated]_vars

\* ------------------------------------------------- preloading
\* PreloadHooks is defined at import; then records are saved, outside a
\* transaction.
InitPreload ==
    /\ LET st == HookMetaNew([registry |-> [k \in Models \X Events |-> << >>],
                              registered |-> {}],
                             "PreloadHooks", Namespace("PreloadHooks"))
       IN  /\ registry = st.registry
           /\ registered = st.registered
    /\ defined = {"PreloadHooks"}
    /\ queue = [t \in Threads |-> << >>]
    /\ hook_vars = [t \in Threads |-> HookVarsInit]
    /\ stack = [t \in Threads |-> << >>]
    /\ in_atomic = [t \in Threads |-> 0]
    /\ run_on_commit = [t \in Threads |-> << >>]
    /\ hook_calls = 0
    /\ batch \in PreloadBatches
    /\ ncalls = 0
    /\ disp = << >>
    /\ calls = << >>
    /\ scopes = << >>
    /\ exits = << >>
    /\ repeats = {}

NextPreload ==
    \E t \in MainThreads :
        \/ \E event \in HookedEvents : CallHandle(t, event)
        \/ HandleReturn(t)
        \/ ProcessInline(t)
        \/ ExecuteInvoke(t)
        \/ ExecuteReturn(t)
        \/ HookPreload(t)
        \/ HookPreloadRaise(t)
        \/ HookReturn(t)

SpecPreload == InitPreload /\ [][NextPreload]_vars

\* ------------------------------------------------- conditions
\* ConditionHooks is defined at import; then a TestAccount is created or
\* saved, outside a transaction.
InitConditions ==
    /\ LET st == HookMetaNew([registry |-> [k \in Models \X Events |-> << >>],
                              registered |-> {}],
                             "ConditionHooks",
                             Namespace("ConditionHooks"))
       IN  /\ registry = st.registry
           /\ registered = st.registered
    /\ defined = {"ConditionHooks"}
    /\ queue = [t \in Threads |-> << >>]
    /\ hook_vars = [t \in Threads |-> HookVarsInit]
    /\ stack = [t \in Threads |-> << >>]
    /\ in_atomic = [t \in Threads |-> 0]
    /\ run_on_commit = [t \in Threads |-> << >>]
    /\ hook_calls = 0
    /\ batch \in ConditionBatches
    /\ ncalls = 0
    /\ disp = << >>
    /\ calls = << >>
    /\ scopes = << >>
    /\ exits = << >>
    /\ repeats = {}

NextConditions ==
    \E t \in MainThreads :
        \/ \E event \in HookedEvents : CallHandle(t, event)
        \/ HandleReturn(t)
        \/ ProcessInline(t)
        \/ ExecuteSkip(t)
        \/ ExecuteInvoke(t)
        \/ ExecuteReturn(t)
        \/ HookReturn(t)

SpecConditions == InitConditions /\ [][NextConditions]_vars

\* ------------------------------------------------- worker threads
\* The batches of the workers: records are created or updated.  The threads
\* are handed the same two lists; with an empty old list, as in the test, no
\* list is written to and the threads may as well hold lists of their own.
WorkerBatches == {b \in Batches : b[1] # << >> /\ Len(b[2]) <= Len(b[1])}

\* The hook classes are defined at import; then every thread runs one bulk
\* operation, on its own connection and outside a transaction.
InitThreads ==
    /\ \E c \in ClassNames :
           LET st == HookMetaNew([registry |-> [k \in Models \X Events |-> << >>],
                                  registered |-> {}],
                                 c, Namespace(c))
           IN  /\ registry = st.registry
               /\ registered = st.registered
               /\ defined = {c}
    /\ queue = [t \in Threads |-> << >>]
    /\ hook_vars = [t \in Threads |-> HookVarsInit]
    /\ stack = [t \in Threads |-> << >>]
    /\ in_atomic = [t \in Threads |-> 0]
    /\ run_on_commit = [t \in Threads |-> << >>]
    /\ hook_calls = 0
    /\ batch \in WorkerBatches
    /\ ncalls = 0
    /\ disp = << >>
    /\ calls = << >>
    /\ scopes = << >>
    /\ exits = << >>
    /\ repeats = {}

\* The worker function of thread t calls HookHandler.handle, once.
WorkerCall(t, event) ==
    /\ stack[t] = << >>
    /\ \A d \in 1..Len(disp) : disp[d].t # t
    /\ ncalls' = ncalls + 1
    /\ handle(t, event, AccountModel, batch[1], batch[2], << >>, 0)
    /\ UNCHANGED << scopes, exits, repeats,
                    registry, registered, defined, hook_vars, in_atomic,
                    run_on_commit, hook_calls, batch, calls >>

NextThreads ==
    \E t \in Threads :
        \/ \E event \in HookedEvents : WorkerCall(t, event)
        \/ HandleReturn(t)
        \/ ProcessInline(t)
        \/ ExecutePad(t)
        \/ ExecuteSkip(t)
        \/ ExecuteInvoke(t)
        \/ ExecuteReturn(t)
        \/ HookReturn(t)
        \/ HookRaise(t)
        \/ HookCount(t)
        \/ HookHandle(t)
        \/ HookNoHandle(t)
        \/ HookInterrupt(t)

SpecThreads == InitThreads /\ [][NextThreads]_vars

\* ================================================================ claims
IsCall(i) == calls[i].kind = "call"
IsError(i) == calls[i].kind = "error"
Dispatches == 1..Len(disp)
Key(d) == <<disp[d].e.model, disp[d].e.event>>
IsAfter(d) == disp[d].e.event.phase = "after"

\* The old record that goes with the k-th new record, None when there is none.
OldAt(old, k) == IF k <= Len(old) THEN old[k] ELSE NoneRec

\* The condition of r holds for the new record k of dispatch d and its old one.
HoldsForPair(r, d, k) ==
    Check(r.condition, disp[d].e.new[k], OldAt(disp[d].e.old, k))

HoldsForSomePair(r, d) == \E k \in 1..Len(disp[d].e.new) : HoldsForPair(r, d, k)

\* Registration r applies to dispatch d.
Applies(r, d) == r.condition = NoCond \/ HoldsForSomePair(r, d)

\* The method of registration r has been called for dispatch d.
Invoked(d, r) ==
    \E i \in 1..Len(calls) :
        /\ IsCall(i)
        /\ calls[i].id = d
        /\ calls[i].handler_cls = r.handler_cls
        /\ calls[i].method_name = r.method_name

\* Every registration that applies to dispatch d has been called for it.
AllApplicableRan(d) ==
    \A k \in 1..Len(registry[Key(d)]) :
        Applies(registry[Key(d)][k], d) => Invoked(d, registry[Key(d)][k])

\* The place of the hook of log entry i in the registration order of its key.
RegIndex(i) ==
    CHOOSE k \in 1..Len(registry[Key(calls[i].id)]) :
        /\ registry[Key(calls[i].id)][k].handler_cls = calls[i].handler_cls
        /\ registry[Key(calls[i].id)][k].method_name = calls[i].method_name

\* C1: within one dispatch the handlers are called in ascending priority, and
\* handlers of equal priority in the order in which they were registered.
C1_PriorityOrder ==
    \A i, j \in 1..Len(calls) :
        (i < j /\ IsCall(i) /\ IsCall(j) /\ calls[i].id = calls[j].id) =>
            \/ calls[i].priority < calls[j].priority
            \/ /\ calls[i].priority = calls[j].priority
               /\ RegIndex(i) < RegIndex(j)

\* A dispatch with three calls, two of them of equal priority.
C1_Witness ==
    \E i, j, k \in 1..Len(calls) :
        /\ i < j /\ j < k
        /\ IsCall(i) /\ IsCall(j) /\ IsCall(k)
        /\ calls[i].id = calls[j].id /\ calls[j].id = calls[k].id
        /\ calls[i].priority < calls[j].priority
        /\ calls[j].priority = calls[k].priority

\* C2: a registration with a condition is never called for a dispatch in which
\* its condition is false for every (new, old) pair, and once the dispatch is
\* processed it has been called if the condition is true for some pair.
C2_ConditionGating ==
    \A d \in Dispatches :
        \A k \in 1..Len(registry[Key(d)]) :
            LET r == registry[Key(d)][k]
            IN  r.condition # NoCond =>
                    /\ Invoked(d, r) => HoldsForSomePair(r, d)
                    /\ (disp[d].st = "done" /\ HoldsForSomePair(r, d))
                           => Invoked(d, r)

\* A conditional registration called for a processed batch of two pairs, the
\* condition false for the first and true for the second.
C2_Witness ==
    \E d \in Dispatches :
        \E k \in 1..Len(registry[Key(d)]) :
            LET r == registry[Key(d)][k]
            IN  /\ r.condition # NoCond
                /\ disp[d].st = "done"
                /\ Len(disp[d].e.new) = 2
                /\ ~HoldsForPair(r, d, 1)
                /\ HoldsForPair(r, d, 2)
                /\ Invoked(d, r)

\* The inline _execute frames of a thread below stack position i.
InlineBelow(t, i) ==
    {j \in 1..(i - 1) : stack[t][j].k = "execute" /\ stack[t][j].inline}

\* C3: a handle call made inside a running hook of an inline dispatch only
\* enqueues its entry: no drain loop, and so no _process, starts inside
\* another _process of the same thread.
C3_NestedOnlyEnqueues ==
    \A t \in Threads :
        \A i \in 1..Len(stack[t]) :
            stack[t][i].k = "handle" => InlineBelow(t, i) = {}

\* C4: an entry enqueued by a hook of an inline dispatch is processed only
\* after that dispatch has finished, and after every entry enqueued before it
\* on the same thread.
C4_FifoBreadthFirst ==
    \A d \in Dispatches :
        disp[d].st # "queued" =>
            /\ (disp[d].parent # 0 /\ disp[disp[d].parent].how = "inline")
                   => disp[disp[d].parent].st = "done"
            /\ \A d2 \in 1..(d - 1) :
                   disp[d2].t = disp[d].t => disp[d2].st # "queued"

\* The calls of the recursive hook logged so far.
RecursiveCalls ==
    {i \in 1..Len(calls) : IsCall(i) /\ calls[i].method_name = "recursive_create"}

\* C5: the hook that re-triggers its own event stops after RetriggerLimit
\* calls in all, every one of them made at nesting depth 0 (deferred to
\* commit) or 1 (inline), and when the outermost handle call of an inline
\* after_create dispatch has returned, exactly RetriggerLimit calls were made.
C5_BoundedRetrigger ==
    /\ \A i \in RecursiveCalls : calls[i].depth <= 1
    /\ (/\ ncalls = 1
        /\ disp # << >>
        /\ stack[disp[1].t] = << >>
        /\ disp[1].e.event = AFTER_CREATE
        /\ disp[1].how = "inline"
        /\ \E k \in 1..Len(registry[Key(1)]) :
               registry[Key(1)][k].method_name = "recursive_create")
           => Cardinality(RecursiveCalls) = RetriggerLimit

\* C6: no handler of an after_* dispatch made inside an open transaction is
\* called unless that transaction has committed, and every applicable handler
\* of an after_* dispatch made outside a transaction has been called when its
\* handle call has returned.
C6_AfterDeferredToCommit ==
    /\ \A i \in 1..Len(calls) :
           (IsCall(i) /\ IsAfter(calls[i].id) /\ disp[calls[i].id].atomic > 0)
               => disp[calls[i].id].fate = "committed"
    /\ \A d \in Dispatches :
           (IsAfter(d) /\ disp[d].atomic = 0 /\ disp[d].ret)
               => AllApplicableRan(d)

\* A handler called at commit for an after_* dispatch made inside the
\* transaction, and a returned after_* handle call made outside a transaction
\* whose handler was called.
C6_Witness ==
    /\ \E i \in 1..Len(calls) :
           /\ IsCall(i) /\ IsAfter(calls[i].id)
           /\ disp[calls[i].id].atomic > 0
           /\ calls[i].commit
    /\ \E i \in 1..Len(calls) :
           /\ IsCall(i) /\ IsAfter(calls[i].id)
           /\ disp[calls[i].id].atomic = 0
           /\ disp[calls[i].id].ret

\* C7: no handler of an after_* dispatch is ever called once the transaction
\* that was open at the dispatch has been rolled back.
C7_RollbackDiscards ==
    \A d \in Dispatches :
        (IsAfter(d) /\ disp[d].fate = "rolledback") =>
            \A i \in 1..Len(calls) : calls[i].id # d

\* An after_* dispatch with an applicable registration whose transaction was
\* rolled back.
C7_Witness ==
    \E d \in Dispatches :
        /\ IsAfter(d)
        /\ disp[d].fate = "rolledback"
        /\ \E k \in 1..Len(registry[Key(d)]) : Applies(registry[Key(d)][k], d)

\* C8: a before_* or validate_* dispatch is never deferred, inside a
\* transaction or not, and every applicable handler has been called when its
\* handle call has returned.
C8_BeforeRunsInline ==
    \A d \in Dispatches :
        ~IsAfter(d) =>
            /\ disp[d].how # "deferred"
            /\ disp[d].ret => AllApplicableRan(d)

\* A returned before_* or validate_* handle call made inside an open
\* transaction, with a handler called.
C8_Witness ==
    \E i \in 1..Len(calls) :
        /\ IsCall(i)
        /\ ~IsAfter(calls[i].id)
        /\ disp[calls[i].id].atomic > 0
        /\ disp[calls[i].id].fate = "open"
        /\ disp[calls[i].id].ret

\* C9: an exception raised by a handler of an inline dispatch leaves _process
\* and the handle call: neither of them completes normally.
C9_ExceptionPropagates ==
    \A i \in 1..Len(calls) :
        (IsError(i) /\ disp[calls[i].id].how = "inline") =>
            /\ disp[calls[i].id].st # "done"
            /\ ~disp[calls[i].id].ret

\* C10: once a handler of a dispatch has raised, no further handler is called
\* for that dispatch.
C10_ShortCircuit ==
    \A i, j \in 1..Len(calls) :
        (i < j /\ IsError(i) /\ calls[i].id = calls[j].id) => ~IsCall(j)

\* C11: an exception raised by a handler that runs as an on_commit callback
\* leaves the deferred _execute, which so does not complete normally, and the
\* transaction of the dispatch stays committed.
C11_DeferredErrorPropagates ==
    \A i \in 1..Len(calls) :
        (IsError(i) /\ calls[i].commit) =>
            /\ disp[calls[i].id].st # "done"
            /\ disp[calls[i].id].fate = "committed"

\* The calls of the method of registration r logged for dispatch d.
CallsOf(d, r) ==
    {i \in 1..Len(calls) :
        /\ IsCall(i)
        /\ calls[i].id = d
        /\ calls[i].handler_cls = r.handler_cls
        /\ calls[i].method_name = r.method_name}

\* C12: however often a key (model, event, handler class, method name) is
\* registered, the registry stores one registration for it, and its method is
\* called at most once for a dispatch, exactly once when the dispatch has been
\* processed and the registration applies.
C12_IdempotentRegistration ==
    /\ \A key \in DOMAIN registry :
           \A i, j \in 1..Len(registry[key]) :
               (/\ registry[key][i].handler_cls = registry[key][j].handler_cls
                /\ registry[key][i].method_name = registry[key][j].method_name)
                   => i = j
    /\ \A d \in Dispatches :
           \A k \in 1..Len(registry[Key(d)]) :
               LET r == registry[Key(d)][k]
               IN  /\ Cardinality(CallsOf(d, r)) <= 1
                   /\ (disp[d].st = "done" /\ Applies(r, d))
                          => Cardinality(CallsOf(d, r)) = 1

\* A key was registered a second time when another registration had been
\* stored behind it; the registry holds the key once, in front of another
\* registration, and a dispatch of the key has been processed with one call
\* of its method.
C12_Witness ==
    \E rp \in repeats :
        LET model == rp.key[1]
            event == rp.key[2]
            hooks == registry[<<model, event>>]
            stored == {k \in 1..Len(hooks) :
                          /\ hooks[k].handler_cls = rp.key[3]
                          /\ hooks[k].method_name = rp.key[4]}
        IN  /\ rp.behind >= 1
            /\ Cardinality(stored) = 1
            /\ \A k \in stored : k < Len(hooks)
            /\ \E d \in Dispatches :
                   /\ Key(d) = <<model, event>>
                   /\ disp[d].st = "done"
                   /\ \A k \in stored :
                          Cardinality(CallsOf(d, hooks[k])) = 1

\* Dispatch d was made with no new and no old record.
EmptyBatch(d) == disp[d].e.new = << >> /\ disp[d].e.old = << >>

\* C13: no handler, conditional or not, is ever called for a dispatch whose
\* new_records and old_records are both empty.
C13_EmptyBatchInvokesNothing ==
    \A i \in 1..Len(calls) : IsCall(i) => ~EmptyBatch(calls[i].id)

\* The innermost active _process of thread t (an inline _execute frame).
Innermost(t) ==
    stack[t][CHOOSE i \in InlineFrames(t) : \A j \in InlineFrames(t) : j <= i]

\* C14: the depth counter of a thread equals the number of its _process calls
\* that have not exited, so every exit, by return or by exception, puts it
\* back to its value on entry; with no _process active the context reads
\* event, model, new and old as absent; and a context that is not absent is the
\* one the innermost active _process has set, never one a finished dispatch
\* has left.
C14_ContextClearedOnExit ==
    \A t \in Threads :
        /\ hook_vars[t].depth = Cardinality(InlineFrames(t))
        /\ InlineFrames(t) = {} => hook_vars[t] = HookVarsInit
        /\ hook_vars[t].event # NoneEvent =>
               /\ InlineFrames(t) # {}
               /\ hook_vars[t].event = Innermost(t).e.event
               /\ hook_vars[t].model = Innermost(t).e.model
               /\ hook_vars[t].new = Some(Innermost(t).e.new)

\* A hook has raised at depth 2 and both active _process calls have exited by
\* the exception, which has left every frame of the thread.
C14_Witness ==
    \E i \in 1..Len(calls) :
        /\ calls[i].kind = "raise"
        /\ calls[i].depth = 2
        /\ stack[calls[i].t] = << >>
        /\ hook_vars[calls[i].t] = HookVarsInit

\* C15: while a hook method runs, inline or as part of an on_commit callback,
\* the execution context of its thread holds the event, the model and the new
\* records of the dispatch the method was called for.
C15_ContextDuringInvocation ==
    \A t \in Threads :
        TopIs(t, "hook") =>
            /\ hook_vars[t].event = disp[Top(t).id].e.event
            /\ hook_vars[t].model = disp[Top(t).id].e.model
            /\ hook_vars[t].new = Some(disp[Top(t).id].e.new)

\* C16: queues and contexts are per thread.  Every entry is queued on,
\* processed by and has its handlers called on the thread that enqueued it; a
\* top-level handle call that has returned has had its entry processed by its
\* own drain loop, whatever other threads were doing; and the context of a
\* thread is absent or the one set by the innermost _process active on that
\* same thread, with a depth that counts that thread's _process calls only.
C16_ThreadIsolation ==
    /\ \A i \in 1..Len(calls) : calls[i].t = disp[calls[i].id].t
    /\ \A t \in Threads :
           /\ \A k \in 1..Len(queue[t]) : disp[queue[t][k].id].t = t
           /\ \A i \in 1..Len(stack[t]) :
                  /\ stack[t][i].k = "execute" => disp[stack[t][i].e.id].t = t
                  /\ stack[t][i].k = "handle" => disp[stack[t][i].id].t = t
           /\ hook_vars[t].depth = Cardinality(InlineFrames(t))
           /\ hook_vars[t].event # NoneEvent =>
                  /\ InlineFrames(t) # {}
                  /\ hook_vars[t].event = Innermost(t).e.event
                  /\ hook_vars[t].new = Some(Innermost(t).e.new)
    /\ \A d \in Dispatches :
           (disp[d].parent = 0 /\ disp[d].ret) => disp[d].st # "queued"

\* Two threads are each inside a hook method of a dispatch of their own, for
\* different events, each with the context of its own dispatch.
C16_Witness ==
    \E t1, t2 \in Threads :
        /\ t1 # t2
        /\ TopIs(t1, "hook") /\ TopIs(t2, "hook")
        /\ disp[Top(t1).id].t = t1 /\ disp[Top(t2).id].t = t2
        /\ disp[Top(t1).id].e.event # disp[Top(t2).id].e.event
        /\ hook_vars[t1].event = disp[Top(t1).id].e.event
        /\ hook_vars[t2].event = disp[Top(t2).id].e.event

\* C17: the method of a conditional registration is called at most once for a
\* dispatch, exactly once when the dispatch has been processed and the
\* condition holds for some pair, and each call receives all new records of
\* the batch and all its old records, those for which the condition is false
\* included.
C17_OncePerDispatchFullBatch ==
    \A d \in Dispatches :
        \A k \in 1..Len(registry[Key(d)]) :
            LET r == registry[Key(d)][k]
            IN  r.condition # NoCond =>
                    /\ Cardinality(CallsOf(d, r)) <= 1
                    /\ (disp[d].st = "done" /\ HoldsForSomePair(r, d))
                           => Cardinality(CallsOf(d, r)) = 1
                    /\ \A i \in CallsOf(d, r) :
                           /\ calls[i].new_records = disp[d].e.new
                           /\ Len(calls[i].old_records) >= Len(disp[d].e.old)
                           /\ SubSeq(calls[i].old_records, 1, Len(disp[d].e.old))
                                  = disp[d].e.old

\* The method of a conditional registration was called with both records of a
\* batch in which the condition holds for one record only.
C17_Witness ==
    \E d \in Dispatches :
        \E k \in 1..Len(registry[Key(d)]) :
            LET r == registry[Key(d)][k]
            IN  /\ r.condition # NoCond
                /\ \E n \in 1..Len(disp[d].e.new) : ~HoldsForPair(r, d, n)
                /\ \E n \in 1..Len(disp[d].e.new) : HoldsForPair(r, d, n)
                /\ \E i \in CallsOf(d, r) :
                       /\ Len(calls[i].new_records) = 2
                       /\ Len(calls[i].old_records) = 2

\* C18: the method of a registration without a condition has been called, once,
\* for every processed dispatch of its (model, event), whatever the batch holds.
C18_UnconditionalAlwaysApplies ==
    \A d \in Dispatches :
        \A k \in 1..Len(registry[Key(d)]) :
            LET r == registry[Key(d)][k]
            IN  (r.condition = NoCond /\ disp[d].st = "done")
                    => Cardinality(CallsOf(d, r)) = 1

\* A processed dispatch with no new record for which the method of a
\* registration without a condition was called.
C18_Witness ==
    \E d \in Dispatches :
        /\ disp[d].st = "done"
        /\ disp[d].e.new = << >>
        /\ \E k \in 1..Len(registry[Key(d)]) :
               /\ registry[Key(d)][k].condition = NoCond
               /\ CallsOf(d, registry[Key(d)][k]) # {}

\* C19: in every _execute that is past its padding the lists the conditions
\* are evaluated over have the same length, the shorter of new_records and old_records having been
\* padded with None: there are as many (new, old) pairs as the longer list has
\* records.
C19_PadsShorterList ==
    \A t \in Threads :
        \A i \in 1..Len(stack[t]) :
            (stack[t][i].k = "execute" /\ stack[t][i].pad = 0) =>
                /\ Len(stack[t][i].new_local) = Len(stack[t][i].old_local)
                /\ Len(stack[t][i].new_local) >= Len(stack[t][i].e.new)
                /\ Len(stack[t][i].old_local) >= Len(stack[t][i].e.old)

\* The registrations stored in reg, each with its key.
Stored(reg) ==
    UNION {{<<k, reg[k][i]>> : i \in DOMAIN reg[k]} : k \in DOMAIN reg}

\* C20: when a registry scope has exited the registry is what it was when the
\* scope was entered, whatever was registered or cleared inside the scope.
C20_ScopeRestoresRegistry ==
    \A i \in 1..Len(exits) : exits[i].after = exits[i].entry

\* A scope has exited inside which one registration was added and another,
\* present at entry, was removed.
C20_Witness ==
    \E i \in 1..Len(exits) :
        /\ Stored(exits[i].inside) \ Stored(exits[i].entry) # {}
        /\ Stored(exits[i].entry) \ Stored(exits[i].inside) # {}

\* A model class no hook was ever registered for.
NonRegisteredModel == "NonRegisteredModel"

\* C21: the lookup of a key without registrations gives the empty list, for a
\* key of a known model and for a model the registry has never seen; and a
\* dispatch of such a key calls no handler, is processed normally, and when its
\* top-level handle call has returned the queue of the thread is empty and its
\* context is cleared.
C21_UnknownKeyIsEmpty ==
    /\ \A event \in Events :
           get_hooks(registry, NonRegisteredModel, event) = << >>
    /\ \A d \in Dispatches :
           get_hooks(registry, disp[d].e.model, disp[d].e.event) = << >> =>
               /\ \A i \in 1..Len(calls) : calls[i].id # d
               /\ disp[d].st \in {"queued", "running", "deferred", "discarded",
                                  "done"}
               /\ (disp[d].parent = 0 /\ disp[d].ret /\ stack[disp[d].t] = << >>)
                      => /\ queue[disp[d].t] = << >>
                         /\ hook_vars[disp[d].t] = HookVarsInit
                         /\ disp[d].st \in {"done", "deferred", "discarded"}

\* A hook class is defined, and the top-level handle call of a dispatch of a
\* key without registrations has returned after processing its entry inline.
C21_Witness ==
    \E d \in Dispatches :
        /\ defined # {}
        /\ registry[Key(d)] = << >>
        /\ disp[d].parent = 0
        /\ disp[d].ret
        /\ disp[d].st = "done"
        /\ stack[disp[d].t] = << >>

\* C22: within one dispatch the handler with the numerically larger priority
\* is called first: of two calls for the same dispatch the earlier one never
\* has the smaller priority, whatever the order of registration.
C22_LargerPriorityFirst ==
    \A i, j \in 1..Len(calls) :
        (i < j /\ IsCall(i) /\ IsCall(j) /\ calls[i].id = calls[j].id) =>
            calls[i].priority >= calls[j].priority

\* The entries enqueued by hooks that ran inside the _process of dispatch d.
EnqueuedInside(d) ==
    {d2 \in Dispatches : disp[d2].parent = d /\ disp[d].how = "inline"}

\* C23: _process is run at most once on an entry; when a handle call that
\* drains the queue has returned normally, _process has been run exactly once
\* on its entry and on every entry enqueued by a nested handle call made while
\* it ran, and the nested calls have returned too; and when the outermost call
\* has returned to top-level code the queue of the thread is empty.
C23_DrainedExactlyOnce ==
    /\ \A d \in Dispatches : disp[d].runs <= 1
    /\ \A d \in Dispatches :
           disp[d].ret =>
               /\ disp[d].runs = 1
               /\ \A d2 \in EnqueuedInside(d) :
                      disp[d2].ret /\ disp[d2].runs = 1
    /\ \A t \in Threads : stack[t] = << >> => queue[t] = << >>

\* A top-level handle call has returned whose hooks made nested handle calls,
\* one of which made a nested call of its own.
C23_Witness ==
    \E d \in Dispatches :
        /\ disp[d].parent = 0
        /\ disp[d].ret
        /\ stack[disp[d].t] = << >>
        /\ Cardinality(EnqueuedInside(d)) >= 2
        /\ \E d2 \in EnqueuedInside(d) : EnqueuedInside(d2) # {}

\* Registry reg stores a registration of method m of class c under key.
StoredUnder(reg, key, c, m) ==
    \E i \in 1..Len(reg[key]) :
        reg[key][i].handler_cls = c /\ reg[key][i].method_name = m

\* C24: a hook method declared on a base handler class is registered under
\* every handler class derived from it as well: once DerivedHooks(BaseHooks)
\* is defined the registry stores (DerivedHooks, base_hook) under the
\* (model, event) of base_hook.
C24_InheritedHooksRegistered ==
    \A c \in defined :
        UsesHookMeta(c) =>
            \A b \in Bases(c) :
                \A k \in 1..Len(Namespace(b)) :
                    Namespace(b)[k].hooked =>
                        StoredUnder(registry,
                                    <<Namespace(b)[k].model, Namespace(b)[k].event>>,
                                    c, Namespace(b)[k].method_name)

\* The annotations in the namespace of class c.
Annotations(c) == {k \in 1..Len(Namespace(c)) : Namespace(c)[k].hooked}

\* The registrations stored under key for method m of class c.
StoredAt(key, c, m) ==
    {i \in 1..Len(registry[key]) :
        registry[key][i].handler_cls = c /\ registry[key][i].method_name = m}

\* C25: for every annotation of a method of a defined hook class the registry
\* stores one registration under the annotated (model, event), so a method
\* with several annotations is registered once under each of them, and its
\* method is called once for a processed dispatch of each; and every stored
\* registration comes from an annotation of a defined hook class, so a method
\* without annotation and an annotated method of a class that does not derive
\* from the hook base class are never registered and never called.
C25_OnePerAnnotation ==
    /\ \A c \in defined :
           UsesHookMeta(c) =>
               \A k \in Annotations(c) :
                   LET a == Namespace(c)[k]
                   IN  /\ Cardinality(StoredAt(<<a.model, a.event>>, c,
                                               a.method_name)) = 1
                       /\ \A d \in Dispatches :
                              (/\ Key(d) = <<a.model, a.event>>
                               /\ disp[d].st = "done"
                               /\ Applies(a, d))
                                  => Cardinality(CallsOf(d,
                                         [handler_cls |-> c,
                                          method_name |-> a.method_name])) = 1
    /\ \A key \in DOMAIN registry :
           \A i \in 1..Len(registry[key]) :
               /\ registry[key][i].handler_cls \in defined
               /\ UsesHookMeta(registry[key][i].handler_cls)
               /\ \E k \in Annotations(registry[key][i].handler_cls) :
                      LET a == Namespace(registry[key][i].handler_cls)[k]
                      IN  /\ <<a.model, a.event>> = key
                          /\ a.method_name = registry[key][i].method_name
    /\ \A i \in 1..Len(calls) :
           StoredAt(Key(calls[i].id), calls[i].handler_cls,
                    calls[i].method_name) # {}

\* The class whose method carries two annotations is defined, the method is
\* stored under both events, and it was called for a processed dispatch of one
\* of them.
C25_Witness ==
    /\ "MultiDecoratorHooks" \in defined
    /\ Cardinality({key \in DOMAIN registry :
                       StoredAt(key, "MultiDecoratorHooks",
                                "multi_event_hook") # {}}) = 2
    /\ \E d \in Dispatches :
           /\ disp[d].st = "done"
           /\ CallsOf(d, [handler_cls |-> "MultiDecoratorHooks",
                          method_name |-> "multi_event_hook"]) # {}

\* The value of field f of a record of a batch, None for a record that is None.
FieldOf(rec, f) == IF rec = NoneRec THEN NoneRec ELSE rec.attrs[f]

\* The registration of method m stored under the key of dispatch d.
RegOf(d, m) ==
    registry[Key(d)][CHOOSE k \in 1..Len(registry[Key(d)]) :
                         registry[Key(d)][k].method_name = m]

\* The processed dispatches of one (new, old) pair for which method m is
\* registered; the old record is None when the record was created.
PairDispatches(m) ==
    {d \in Dispatches :
        /\ disp[d].st = "done"
        /\ Len(disp[d].e.new) = 1
        /\ \E k \in 1..Len(registry[Key(d)]) :
               registry[Key(d)][k].method_name = m}

\* C26: ChangesTo(field, value) holds for a (new, old) pair exactly when the
\* field of the new record equals value and the field of the old record does
\* not, so a hook gated by it has been called for a processed one-pair dispatch
\* exactly when the record changed into value: not when the field had the
\* value before, and not when it moved away from it.
C26_ChangesToTransition ==
    \A d \in PairDispatches("changes_to_inactive") :
        LET n == disp[d].e.new[1]
            o == OldAt(disp[d].e.old, 1)
            into == /\ FieldOf(n, "status") = Inactive
                    /\ FieldOf(o, "status") # Inactive
        IN  /\ Check(ChangesTo(<< "status" >>, Inactive), n, o) = into
            /\ Invoked(d, RegOf(d, "changes_to_inactive")) = into

\* A record was saved with its status changed from another value into the
\* value, and the hook was called.
C26_Witness ==
    \E d \in PairDispatches("changes_to_inactive") :
        /\ FieldOf(disp[d].e.new[1], "status") = Inactive
        /\ FieldOf(OldAt(disp[d].e.old, 1), "status") = Active
        /\ Invoked(d, RegOf(d, "changes_to_inactive"))

\* C27: a hook gated by HasChanged(field) has been called for a processed save
\* of one record exactly when the value of the field differs between the old
\* and the new record: it is not called when only other fields changed, nor
\* when the field was assigned the value it already had.
C27_HasChangedGate ==
    \A d \in PairDispatches("balance_changed") :
        disp[d].e.old # << >> =>
            LET n == disp[d].e.new[1]
                o == disp[d].e.old[1]
            IN  Invoked(d, RegOf(d, "balance_changed"))
                    = (n.attrs.balance # o.attrs.balance)

\* A record was saved with a new balance and its other fields as they were,
\* and the hook was called.
C27_Witness ==
    \E d \in PairDispatches("balance_changed") :
        /\ disp[d].e.old # << >>
        /\ disp[d].e.new[1].attrs.balance # disp[d].e.old[1].attrs.balance
        /\ disp[d].e.new[1].attrs.name = disp[d].e.old[1].attrs.name
        /\ disp[d].e.new[1].attrs.status = disp[d].e.old[1].attrs.status
        /\ Invoked(d, RegOf(d, "balance_changed"))

\* Only the name of the record changed and the hook was not called.
C27_OnlyOtherFieldChanged ==
    \E d \in PairDispatches("balance_changed") :
        /\ disp[d].e.old # << >>
        /\ disp[d].e.new[1].attrs.balance = disp[d].e.old[1].attrs.balance
        /\ disp[d].e.new[1].attrs.name # disp[d].e.old[1].attrs.name
        /\ ~Invoked(d, RegOf(d, "balance_changed"))

\* The field paths resolved: "name", "created_by.username", and paths with a
\* missing attribute in the first or in the second place.
Paths ==
    { << "name" >>, << "created_by", "username" >>, << "non_existent" >>,
      << "created_by", "non_existent" >>, << "non_existent", "username" >>,
      << "name", "username" >> }

\* The records a dispatch of the batch evaluates conditions on, None for the
\* old side of a created record included.
StartingRecords ==
    {batch[1][i] : i \in 1..Len(batch[1])}
        \cup {batch[2][i] : i \in 1..Len(batch[2])} \cup {NoneRec}

\* Value v has attribute a.
HasAttr(v, a) == v.tag = "obj" /\ a \in DOMAIN v.attrs

\* Every hop of path p (of one or two segments) from record r succeeds.
EveryHopSucceeds(r, p) ==
    /\ HasAttr(r, p[1])
    /\ Len(p) = 2 => HasAttr(r.attrs[p[1]], p[2])

\* The value at the end of path p when every hop succeeds.
Leaf(r, p) == IF Len(p) = 1 THEN r.attrs[p[1]] ELSE r.attrs[p[1]].attrs[p[2]]

\* C28: resolving a field path never raises: the result is the leaf value
\* when every hop succeeds, and None when the starting record is None, when a
\* hop names a missing attribute, or when an intermediate hop gives None.
C28_ResolveIsLenient ==
    \A r \in StartingRecords :
        \A p \in Paths :
            /\ resolve_dotted_attr(r, p) # Raised
            /\ resolve_dotted_attr(r, p) =
                   IF EveryHopSucceeds(r, p) THEN Leaf(r, p) ELSE NoneRec

\* A dispatch was processed, and the hook gated on "created_by.username"
\* called, for a record whose creator was set before the save and is None
\* after it: the path was resolved through a None reference.
C28_Witness ==
    \E d \in PairDispatches("creator_changed") :
        /\ disp[d].e.old # << >>
        /\ disp[d].e.new[1].attrs.created_by = NoneRec
        /\ disp[d].e.old[1].attrs.created_by # NoneRec
        /\ resolve_dotted_attr(disp[d].e.new[1], << "created_by", "username" >>)
               = NoneRec
        /\ Invoked(d, RegOf(d, "creator_changed"))

\* C29: a function decorated with bulk_hook(model, event) is registered for
\* that model and event, and it has been called, with the new and the original
\* records of the batch, for every processed dispatch of that event to which
\* its registration applies.
C29_BulkHookInvoked ==
    \A d \in Dispatches :
        \A k \in 1..Len(registry[Key(d)]) :
            LET r == registry[Key(d)][k]
            IN  (/\ r.handler_cls \in BulkFunctions
                 /\ disp[d].st = "done"
                 /\ Applies(r, d))
                    => \E i \in CallsOf(d, r) :
                           /\ calls[i].new_records = disp[d].e.new
                           /\ Len(calls[i].old_records) >= Len(disp[d].e.old)

\* The decorated function of the method called in log entry i was run.
FunctionRan(i) ==
    \E j \in (i + 1)..Len(calls) :
        /\ calls[j].kind = "run"
        /\ calls[j].id = calls[i].id
        /\ calls[j].handler_cls = calls[i].handler_cls
        /\ calls[j].method_name = calls[i].method_name

\* C30: preloading the related fields of a hook never raises: when a hook
\* method decorated with select_related has been called for a dispatch that is
\* processed, no error was logged for it and its function has run, whether the
\* fields could be preloaded or not.
C30_PreloadNeverRaises ==
    \A i \in 1..Len(calls) :
        (/\ IsCall(i)
         /\ RelatedFields(calls[i].handler_cls, calls[i].method_name) # << >>
         /\ disp[calls[i].id].st = "done")
            => /\ FunctionRan(i)
               /\ \A j \in 1..Len(calls) :
                      (IsError(j) /\ calls[j].id = calls[i].id)
                          => calls[j].method_name # calls[i].method_name


\* The top-level handle calls of thread t made after dispatch d has raised.
CallsAfterRaise(d) ==
    {d2 \in Dispatches : /\ d2 > d
                         /\ disp[d].st = "raised"
                         /\ disp[d2].t = disp[d].t
                         /\ disp[d2].parent = 0}

\* C31: when an exception has left the outermost handle call of a thread, the
\* queue of the thread is empty; the next handle call of the thread then finds
\* its own entry alone in the queue, is the one that drains it, and has run
\* _process on it once when it returns.
C31_QueueEmptyAfterRaise ==
    /\ \A d \in Dispatches :
           (disp[d].st = "raised" /\ stack[disp[d].t] = << >>) =>
               queue[disp[d].t] = << >>
    /\ \A d \in Dispatches : \A d2 \in CallsAfterRaise(d) :
           /\ disp[d2].st = "queued" =>
                  /\ queue[disp[d2].t] = << disp[d2].e >>
                  /\ stack[disp[d2].t] = << [k |-> "handle", id |-> d2] >>
           /\ disp[d2].ret => disp[d2].runs = 1

\* A handle call has raised out of the constructor of a handler class into
\* top-level code, and the next handle call of the thread has run a hook
\* method and returned.
C31_Witness ==
    \E d \in Dispatches : \E d2 \in CallsAfterRaise(d) :
        /\ disp[d].parent = 0
        /\ \E i \in 1..Len(calls) :
               calls[i].kind = "raise" /\ calls[i].id = d
                   /\ calls[i].handler_cls = "BrokenInitHooks"
        /\ disp[d2].ret
        /\ disp[d2].st = "done"
        /\ \E i \in 1..Len(calls) : IsCall(i) /\ calls[i].id = d2


\* The dispatches of after_* events whose handle call was made by a hook
\* method.
NestedAfter == {d \in Dispatches : disp[d].parent # 0 /\ IsAfter(d)}

\* A hook method has been called for dispatch d.
Called(d) == \E i \in 1..Len(calls) : IsCall(i) /\ calls[i].id = d

\* C32: for an after_* entry enqueued by a handle call that a hook method
\* made, the handler loop is deferred exactly when an atomic block was open at
\* the moment of the handle call, and handlers of an entry enqueued inside an
\* atomic block have run only if the transaction of that block has committed:
\* never while it is open and never after it has rolled back.
C32_FollowsTransactionAtHandle ==
    \A d \in NestedAfter :
        /\ disp[d].how = "deferred" => disp[d].atomic > 0
        /\ disp[d].how = "inline" => disp[d].atomic = 0
        /\ (disp[d].atomic > 0 /\ Called(d)) => disp[d].fate = "committed"

\* A hook method has made a handle call for an after_* event inside an atomic
\* block of its own, the block has closed and committed, and the handlers of
\* the entry have then run.
C32_Witness ==
    \E d \in NestedAfter :
        /\ disp[d].atomic > 0
        /\ in_atomic[disp[d].t] = 0
        /\ disp[d].fate = "committed"
        /\ disp[d].how = "deferred"
        /\ Called(d)


\* The hook methods annotated for the event of dispatch d in the classes that
\* were defined when _process was entered for its entry.
MethodsAt(d) ==
    UNION {{<< c, Namespace(c)[k].method_name >> :
               k \in {j \in Annotations(c) :
                         Namespace(c)[j].event = disp[d].e.event}} :
           c \in disp[d].defs}

\* The hook methods called for dispatch d.
RanFor(d) ==
    {<< calls[i].handler_cls, calls[i].method_name >> :
        i \in {j \in 1..Len(calls) : IsCall(j) /\ calls[j].id = d}}

\* C33: the handlers of a dispatch are those registered when _process was
\* entered for its entry.  A handler registered afterwards, by a handler of the
\* dispatch itself or between the dispatch and the commit that runs its
\* deferred loop, is never called for it; every handler registered before the
\* entry was dequeued, also one registered by a handler of an earlier entry,
\* has been called once when the loop of the dispatch is over.
C33_HandlersFixedAtProcess ==
    \A d \in Dispatches :
        /\ RanFor(d) \subseteq MethodsAt(d)
        /\ disp[d].st = "done" => RanFor(d) = MethodsAt(d)
        /\ \A i, j \in 1..Len(calls) :
               (/\ IsCall(i) /\ IsCall(j) /\ i # j
                /\ calls[i].id = d /\ calls[j].id = d)
                   => calls[i].method_name # calls[j].method_name

\* A hook method of a before_update dispatch has defined LateHooks, which has
\* a before_update hook of its own, and then dispatched after_create: the
\* first dispatch is over without the late before_update hook, and the second
\* one has called the late after_create hook.
C33_Witness ==
    \E d, d2 \in Dispatches :
        /\ disp[d].st = "done" /\ disp[d2].st = "done"
        /\ disp[d2].parent = d
        /\ "LateHooks" \in defined
        /\ "LateHooks" \notin disp[d].defs
        /\ << "LateHooks", "late_before" >> \notin RanFor(d)
        /\ disp[d].e.event = BEFORE_UPDATE
        /\ << "LateHooks", "late_after" >> \in RanFor(d2)


\* The dispatches whose handler loop was handed to transaction.on_commit.
Deferred == {d \in Dispatches : disp[d].how = "deferred"}

\* C34: the deferred handler loops run at commit in the order in which their
\* events were dispatched, every call of an earlier dispatch before every call
\* of a later one, and the calls of one loop are in priority order.
C34_CommitRunsInDispatchOrder ==
    \A i, j \in 1..Len(calls) :
        (/\ IsCall(i) /\ IsCall(j)
         /\ calls[i].id \in Deferred /\ calls[j].id \in Deferred
         /\ calls[i].t = calls[j].t)
            => /\ calls[i].id < calls[j].id => i < j
               /\ (calls[i].id = calls[j].id /\ i < j)
                      => calls[i].priority <= calls[j].priority

\* Two after_create events were dispatched inside one transaction, the
\* transaction has committed and both loops have run, the second one over two
\* hooks whose priority order is not their registration order.
C34_Witness ==
    \E d, d2 \in Deferred :
        /\ d < d2
        /\ disp[d].t = disp[d2].t
        /\ disp[d].parent = 0 /\ disp[d2].parent = 0
        /\ disp[d].st = "done" /\ disp[d2].st = "done"
        /\ Called(d)
        /\ RanFor(d2) = {<< "RegisteringHooks", "first_after" >>,
                         << "LateHooks", "late_after" >>}
        /\ \E i, j \in 1..Len(calls) :
               /\ IsCall(i) /\ IsCall(j) /\ i < j
               /\ calls[i].id = d2 /\ calls[j].id = d2
               /\ RegIndex(i) > RegIndex(j)


\* C35: the depth counter of a thread is 0 when no _process call of the thread
\* is active and 1 while one is active; it never exceeds 1 and is never
\* negative.
C35_DepthAtMostOne ==
    \A t \in Threads :
        /\ hook_vars[t].depth \in {0, 1}
        /\ hook_vars[t].depth = 0 <=> InlineFrames(t) = {}


\* The handle calls of top-level code that have returned.
ReturnedCalls == {d \in Dispatches : disp[d].parent = 0 /\ disp[d].ret}

\* C36: when a handle call of top-level code has returned, the new_records and
\* old_records lists of the caller hold what they held when they were passed,
\* in length and in content.
C36_CallerListsUnchanged ==
    \A d \in ReturnedCalls :
        /\ batch[1] = disp[d].e.new
        /\ batch[2] = disp[d].e.old


\* The registrations made by bulk_hook, with the key they are stored under.
BulkRegistrations ==
    {<< key, k >> \in (Models \X Events) \X (1..3) :
        /\ k <= Len(registry[key])
        /\ registry[key][k].handler_cls \in BulkFunctions}

\* C37: a hook registered by bulk_hook has the priority the decorator was
\* given, 0 included, and the default priority 50 when it was given none.
C37_BulkHookKeepsPriority ==
    \A x \in BulkRegistrations :
        LET r == registry[x[1]][x[2]]
            given == GivenPriority(r.handler_cls)
        IN  r.priority = IF given.some THEN given.val ELSE 50


\* C38: on every thread is_before and is_after are never both true and are
\* both false while the event of the context is a validate_* event, is_create
\* and is_update are true exactly when the event of the context has create or
\* update in its name, and on a thread with no active _process call the four
\* of them are false.
C38_ContextBooleans ==
    \A t \in Threads :
        LET hv == hook_vars[t]
        IN  /\ ~(is_before(hv) /\ is_after(hv))
            /\ hv.event.phase = "validate" => ~is_before(hv) /\ ~is_after(hv)
            /\ hv.event \in Events =>
                   /\ is_create(hv) <=> hv.event.op = "create"
                   /\ is_update(hv) <=> hv.event.op = "update"
                   /\ is_before(hv) \/ is_after(hv) \/ hv.event.phase = "validate"
            /\ InlineFrames(t) = {} =>
                   /\ ~is_before(hv) /\ ~is_after(hv)
                   /\ ~is_create(hv) /\ ~is_update(hv)

\* A dispatch of before_update is over and the thread is outside _process,
\* after a hook method of the dispatch was called with the context of its
\* event: is_before and is_update true then, the four false now.
C38_Witness ==
    \E d \in Dispatches :
        /\ disp[d].st = "done"
        /\ disp[d].e.event = BEFORE_UPDATE
        /\ Called(d)
        /\ stack[disp[d].t] = << >>
        /\ LET hv == [HookVarsInit EXCEPT !.event = disp[d].e.event]
           IN  is_before(hv) /\ is_update(hv) /\ ~is_after(hv) /\ ~is_create(hv)
        /\ ~is_before(hook_vars[disp[d].t]) /\ ~is_update(hook_vars[disp[d].t])

====
